---- MODULE Spec2Model ----
(***************************************************************************)
(* Protocol state and message layer of oid4vc-ts: the wallet-side          *)
(* authorization initiation (Oid4vciClient / Oauth2Client), the token      *)
(* acquisition with the DPoP nonce retry, access-token minting and the     *)
(* resource-request verification.                                          *)
(*                                                                         *)
(* Strings are sequences of one-character strings, so that the             *)
(* form-urlencoding of query parameters is computed character by           *)
(* character.  An absent (undefined) string is the value `undefined'.      *)
(***************************************************************************)
EXTENDS Integers, Sequences, FiniteSets, TLC

VARIABLES
  call,        \* the operation in progress: "none" before any call
  pc,          \* position of the call: "idle", an await point, or "done"
  opts,        \* the options the call was made with
  oauth2Options, \* the options the inner operation was given
  pkce,        \* the PKCE pair created by Oauth2Client.initiateAuthorization
  sent,        \* the requests handed to the fetch callback, in order
  received,    \* the responses the fetch callback resolved with, in order;
               \* for a server, the request that came in
  built,       \* the authorization request urls built so far, in order
  challenge,   \* what the authorization-challenge request resolved to
  result       \* the value returned or the error thrown by the call

vars == <<call, pc, opts, oauth2Options, pkce, sent, received, built, challenge, result>>

\* ---------------------------------------------------------------- strings

undefined == <<"undefined">>

s_https_as == <<"h","t","t","p","s",":","/","/","a","s">>
s_https_as2 == <<"h","t","t","p","s",":","/","/","a","2">>
s_https_iss == <<"h","t","t","p","s",":","/","/","i","s","s">>
s_authorize == s_https_as \o <<"/","a","u","t","h">>
s_authorize2 == s_https_as2 \o <<"/","a","u","t","h">>
s_challenge == s_https_as \o <<"/","c","h">>
s_par == s_https_as \o <<"/","p","a","r">>
s_token == s_https_as \o <<"/","t","o","k","e","n">>
s_urn_x == <<"u","r","n",":","x">>
s_urn_y == <<"u","r","n",":","y">>
s_client == <<"c","l","-","1">>
s_redirect == <<"a","p","p",":","/","/","c","b">>
s_scope == <<"p","i","d"," ","e","x">>
s_verifier == <<"v","e","r","-","1">>
s_random1 == <<"r","n","d","_","1">>
s_random2 == <<"r","n","d","_","2">>
s_code == <<"C","0","d","e">>
s_oid4vp == <<"o","i","d","4","v","p",":","/","/","r","q">>
s_session == <<"S","1">>
s_empty == <<>>
k_request_uri == <<"r","e","q","u","e","s","t","_","u","r","i">>
k_client_id == <<"c","l","i","e","n","t","_","i","d">>
k_scope == <<"s","c","o","p","e">>
k_code_challenge == <<"c","o","d","e","_","c","h","a","l","l","e","n","g","e">>
k_code_challenge_method == <<"c","o","d","e","_","c","h","a","l","l","e","n","g","e","_","m","e","t","h","o","d">>
k_response_type == <<"r","e","s","p","o","n","s","e","_","t","y","p","e">>
k_redirect_uri == <<"r","e","d","i","r","e","c","t","_","u","r","i">>
k_auth_session == <<"a","u","t","h","_","s","e","s","s","i","o","n">>
k_presentation_during_issuance_session == <<"p","r","e","s","e","n","t","a","t","i","o","n","_","d","u","r","i","n","g","_","i","s","s","u","a","n","c","e","_","s","e","s","s","i","o","n">>
k_issuer_state == <<"i","s","s","u","e","r","_","s","t","a","t","e">>
k_ui_locales == <<"u","i","_","l","o","c","a","l","e","s">>
k_grant_type == <<"g","r","a","n","t","_","t","y","p","e">>
k_pre_authorized_code == <<"p","r","e","-","a","u","t","h","o","r","i","z","e","d","_","c","o","d","e">>
k_tx_code == <<"t","x","_","c","o","d","e">>
k_code == <<"c","o","d","e">>
k_code_verifier == <<"c","o","d","e","_","v","e","r","i","f","i","e","r">>
s_tx_code == <<"1","2","3","4">>
s_nonce1 == <<"N","1">>
s_nonce2 == <<"N","2">>
s_response_code == <<"c","o","d","e">>
s_state == <<"s","t","-","1">>
s_locale == <<"e","n">>
s_https_x == <<"h","t","t","p","s",":","/","/","x">>
s_presentation_session == <<"P","1">>

\* The text of a string value as the template literal `${value}` renders it.
Str(s) == IF s = undefined THEN <<"u","n","d","e","f","i","n","e","d">> ELSE s

\* ------------------------------------------------------------ query params

Unreserved ==
  {"a","b","c","d","e","f","g","h","i","j","k","l","m","n","o","p","q","r","s",
   "t","u","v","w","x","y","z","A","B","C","D","E","F","G","H","I","J","K","L",
   "M","N","O","P","Q","R","S","T","U","V","W","X","Y","Z","0","1","2","3","4",
   "5","6","7","8","9","*","-",".","_"}

\* application/x-www-form-urlencoded byte serializer, as URLSearchParams
\* applies it to every name and value.
urlencodeChar(c) ==
  IF c \in Unreserved THEN <<c>>
  ELSE IF c = " " THEN <<"+">>
  ELSE IF c = ":" THEN <<"%","3","A">>
  ELSE IF c = "/" THEN <<"%","2","F">>
  ELSE IF c = "?" THEN <<"%","3","F">>
  ELSE IF c = "=" THEN <<"%","3","D">>
  ELSE IF c = "&" THEN <<"%","2","6">>
  ELSE IF c = "%" THEN <<"%","2","5">>
  ELSE IF c = "+" THEN <<"%","2","B">>
  ELSE IF c = "{" THEN <<"%","7","B">>
  ELSE IF c = "}" THEN <<"%","7","D">>
  ELSE IF c = "[" THEN <<"%","5","B">>
  ELSE IF c = "]" THEN <<"%","5","D">>
  ELSE IF c = "\"" THEN <<"%","2","2">>
  ELSE IF c = "\\" THEN <<"%","5","C">>
  ELSE IF c = "," THEN <<"%","2","C">>
  ELSE IF c = "#" THEN <<"%","2","3">>
  ELSE <<"%","?","?">>

RECURSIVE urlencode(_)
\* Every character encoded: a text of unreserved characters is itself, any
\* other text is taken in halves.
urlencode(s) ==
  IF \A i \in DOMAIN s : s[i] \in Unreserved THEN s
  ELSE IF Len(s) = 1 THEN urlencodeChar(s[1])
  ELSE urlencode(SubSeq(s, 1, Len(s) \div 2))
       \o urlencode(SubSeq(s, Len(s) \div 2 + 1, Len(s)))

RECURSIVE URLSearchParamsToString(_)
\* URLSearchParams.toString(): name=value pairs joined by "&".
URLSearchParamsToString(params) ==
  IF params = <<>> THEN <<>>
  ELSE urlencode(params[1][1]) \o <<"=">> \o urlencode(params[1][2])
       \o (IF Len(params) > 1 THEN <<"&">> ELSE <<>>)
       \o URLSearchParamsToString(Tail(params))

RECURSIVE objectToQueryParams_keepsUndefined(_)
\* Mutant: an undefined value is appended as the text "undefined".
objectToQueryParams_keepsUndefined(object) ==
  IF object = <<>> THEN <<>>
  ELSE <<<<object[1][1], Str(object[1][2])>>>>
       \o objectToQueryParams_keepsUndefined(Tail(object))

RECURSIVE objectToQueryParams(_)
\* objectToQueryParams: the entries of the object in insertion order, the
\* entries whose value is null or undefined left out.
objectToQueryParams(object) ==
  IF object = <<>> THEN <<>>
  ELSE IF object[1][2] # undefined
       THEN <<object[1]>> \o objectToQueryParams(Tail(object))
       ELSE objectToQueryParams(Tail(object))

\* ------------------------------------------------------------------ values

NoResult == [kind |-> "none"]
Return(v) == [kind |-> "return", value |-> v]
Throw(e) == [kind |-> "throw", error |-> e]

undefinedPkce == [codeChallengeMethod |-> undefined]

\* The hash callback followed by base64url, kept symbolic and injective.
sha256Base64Url(data) == <<"h",".">> \o data

Oauth2Error(message) == [type |-> "Oauth2Error", message |-> message]
Oauth2ClientError(errorResponse) ==
  [type |-> "Oauth2ClientError", errorResponse |-> errorResponse]
Oauth2ClientAuthorizationChallengeError(errorResponse) ==
  [type |-> "Oauth2ClientAuthorizationChallengeError", errorResponse |-> errorResponse]
InvalidFetchResponseError == [type |-> "InvalidFetchResponseError"]

RedirectToWeb == "redirect_to_web"
InsufficientAuthorization == "insufficient_authorization"

authorizationCodeGrantIdentifier ==
  <<"a","u","t","h","o","r","i","z","a","t","i","o","n","_","c","o","d","e">>
preAuthorizedCodeGrantIdentifier ==
  <<"u","r","n",":","i","e","t","f",":","p","a","r","a","m","s",":","o","a","u","t","h",":","g","r","a","n","t","-","t","y","p","e",":","p","r","e","-","a","u","t","h","o","r","i","z","e","d","_","c","o","d","e">>

Oauth2Redirect == "Oauth2Redirect"
PresentationDuringIssuance == "PresentationDuringIssuance"

\* ---------------------------------------------------------------- metadata

S256 == <<"S","2","5","6">>
plain == <<"p","l","a","i","n">>

\* An absent list of strings.
undefinedArray == <<undefined>>

CodeChallengeMethodsSet ==
  {undefinedArray, <<>>, <<S256>>, <<plain>>, <<plain, S256>>}

AuthorizationServerMetadataSet ==
  [issuer : {s_https_as},
   token_endpoint : {s_token},
   authorization_endpoint : {undefined, s_authorize},
   authorization_challenge_endpoint : {undefined, s_challenge},
   pushed_authorization_request_endpoint : {undefined, s_par},
   require_pushed_authorization_requests : BOOLEAN,
   code_challenge_methods_supported : CodeChallengeMethodsSet]

\* A second authorization server of the same issuer, with fixed metadata.
secondAuthorizationServer ==
  [issuer |-> s_https_as2,
   token_endpoint |-> s_https_as2 \o <<"/","t">>,
   authorization_endpoint |-> s_authorize2,
   authorization_challenge_endpoint |-> undefined,
   pushed_authorization_request_endpoint |-> undefined,
   require_pushed_authorization_requests |-> FALSE,
   code_challenge_methods_supported |-> <<S256>>]

\* IssuerMetadataResult: the credential issuer's metadata and the metadata
\* of its authorization servers.
IssuerMetadataSet ==
  { [credentialIssuer |-> [credential_issuer |-> s_https_iss,
                           authorization_servers |-> <<m.issuer>> \o rest.ids],
     authorizationServers |-> <<m>> \o rest.metadata]
    : m \in AuthorizationServerMetadataSet,
      rest \in { [ids |-> <<>>, metadata |-> <<>>],
                 [ids |-> <<s_https_as2>>, metadata |-> <<secondAuthorizationServer>>] } }

NoGrant == [absent |-> TRUE]
NoTxCode == [absent |-> TRUE]
NoGrants == [absent |-> TRUE]

\* The grants member of a credential offer: absent, or a record of the two
\* optional grants.
GrantsSet ==
  { NoGrant }
  \cup { [authorization_code |-> NoGrant,
          pre_authorized_code |-> [pre_authorized_code |-> s_code,
                                   authorization_server |-> undefined]] }
  \cup { [authorization_code |-> [issuer_state |-> st, authorization_server |-> as],
          pre_authorized_code |-> NoGrant]
         : st \in {undefined, s_state},
           as \in {undefined, s_https_as, s_https_x} }

CredentialOfferSet ==
  [credential_issuer : {s_https_iss},
   credential_configuration_ids : {<<"pidSdJwt">>},
   grants : GrantsSet]

Range(seq) == { seq[i] : i \in DOMAIN seq }

\* determineAuthorizationServerForCredentialOffer: a pinned server must be
\* one the issuer lists; without a pin the only listed server is taken and
\* several listed servers are ambiguous.
determineAuthorizationServerForCredentialOffer(issuerMetadata, grantAuthorizationServer) ==
  LET authorizationServers == issuerMetadata.credentialIssuer.authorization_servers IN
  IF grantAuthorizationServer # undefined /\ grantAuthorizationServer # <<>>
  THEN IF grantAuthorizationServer \in Range(authorizationServers)
       THEN Return(grantAuthorizationServer)
       ELSE Throw(Oauth2Error("unknown_authorization_server"))
  ELSE IF Len(authorizationServers) = 1
       THEN Return(authorizationServers[1])
       ELSE Throw(Oauth2Error("ambiguous_authorization_server"))

\* getAuthorizationServerMetadataFromList: the metadata whose issuer is the
\* selected authorization server.
getAuthorizationServerMetadataFromList(authorizationServers, authorizationServer) ==
  LET found == { i \in DOMAIN authorizationServers :
                   authorizationServers[i].issuer = authorizationServer } IN
  IF found = {}
  THEN Throw(Oauth2Error("authorization_server_metadata_not_found"))
  ELSE Return(authorizationServers[CHOOSE i \in found : \A j \in found : i <= j])

\* Mutant: the first allowed method is taken.
createPkce_firstAllowed(allowedCodeChallengeMethods, codeVerifier, random) ==
  LET verifier == IF codeVerifier # undefined THEN codeVerifier ELSE random IN
  IF allowedCodeChallengeMethods # <<>> /\ allowedCodeChallengeMethods[1] = plain
  THEN [codeVerifier |-> verifier,
        codeChallenge |-> verifier,
        codeChallengeMethod |-> plain]
  ELSE IF S256 \in Range(allowedCodeChallengeMethods)
  THEN [codeVerifier |-> verifier,
        codeChallenge |-> sha256Base64Url(verifier),
        codeChallengeMethod |-> S256]
  ELSE undefinedPkce

\* createPkce: S256 when allowed, else plain when allowed, else no PKCE;
\* the verifier is the caller's or freshly generated random bytes.
createPkce(allowedCodeChallengeMethods, codeVerifier, random) ==
  LET verifier == IF codeVerifier # undefined THEN codeVerifier ELSE random IN
  IF S256 \in Range(allowedCodeChallengeMethods)
  THEN [codeVerifier |-> verifier,
        codeChallenge |-> sha256Base64Url(verifier),
        codeChallengeMethod |-> S256]
  ELSE IF plain \in Range(allowedCodeChallengeMethods)
  THEN [codeVerifier |-> verifier,
        codeChallenge |-> verifier,
        codeChallengeMethod |-> plain]
  ELSE undefinedPkce

\* pkce?.codeVerifier
pkceCodeVerifierOf(p) == IF p = undefinedPkce THEN undefined ELSE p.codeVerifier

\* JavaScript truthiness of an optional string.
Truthy(s) == s # undefined /\ s # <<>>

\* ------------------------------------------- authorization challenge request

\* sendAuthorizationChallengeRequest: the form-encoded POST to the
\* authorization challenge endpoint.
authorizationChallengeRequest(o, random) ==
  LET metadata == o.authorizationServerMetadata
      p == IF metadata.code_challenge_methods_supported # undefinedArray
           THEN createPkce(metadata.code_challenge_methods_supported, o.pkceCodeVerifier, random)
           ELSE undefinedPkce
      params == objectToQueryParams(
                  o.additionalRequestPayload \o
                  << <<k_client_id, o.clientId>>,
                     <<k_scope, o.scope>>,
                     <<k_code_challenge, IF p = undefinedPkce THEN undefined ELSE p.codeChallenge>>,
                     <<k_code_challenge_method, p.codeChallengeMethod>>,
                     <<k_auth_session, o.authSession>>,
                     <<k_presentation_during_issuance_session,
                       o.presentationDuringIssuanceSession>> >>)
  IN [kind |-> "authorization_challenge",
      method |-> "POST",
      url |-> metadata.authorization_challenge_endpoint,
      params |-> params,
      body |-> URLSearchParamsToString(params),
      pkceCodeVerifier |-> o.pkceCodeVerifier]

NoErrorResponse == [error |-> "none"]

\* The responses the authorization challenge endpoint may give.
AuthorizationChallengeResponseSet ==
  { [status |-> 200, authorization_code |-> s_code, errorResponse |-> NoErrorResponse] }
  \cup { [status |-> 400, authorization_code |-> undefined,
          errorResponse |-> [error |-> e, request_uri |-> r,
                             presentation |-> pr, auth_session |-> s]]
         : e \in {RedirectToWeb, InsufficientAuthorization, "invalid_request"},
           r \in {undefined, <<>>, s_urn_x},
           pr \in {undefined, s_oid4vp},
           s \in {undefined, s_session} }
  \cup { [status |-> 500, authorization_code |-> undefined, errorResponse |-> NoErrorResponse] }

\* sendAuthorizationChallengeRequest, after the fetch: a 2xx response is
\* returned, an error envelope is thrown as
\* Oauth2ClientAuthorizationChallengeError, anything else is an invalid
\* fetch response.
authorizationChallengeOutcome(response) ==
  IF response.status = 200
  THEN Return([authorizationChallengeResponse |->
                 [authorization_code |-> response.authorization_code]])
  ELSE IF response.errorResponse # NoErrorResponse
  THEN Throw(Oauth2ClientAuthorizationChallengeError(response.errorResponse))
  ELSE Throw(InvalidFetchResponseError)

\* -------------------------------------------------- authorization request

\* The PKCE pair createAuthorizationRequestUrl uses.
authorizationRequestPkce(o, random) ==
  IF o.authorizationServerMetadata.code_challenge_methods_supported # undefinedArray
  THEN createPkce(o.authorizationServerMetadata.code_challenge_methods_supported,
                  o.pkceCodeVerifier, random)
  ELSE undefinedPkce

\* The parameters of the authorization request.
authorizationRequestParams(o, random) ==
  LET p == authorizationRequestPkce(o, random) IN
  objectToQueryParams(
    << <<k_response_type, s_response_code>>,
       <<k_client_id, o.clientId>>,
       <<k_redirect_uri, o.redirectUri>>,
       <<k_scope, o.scope>>,
       <<k_code_challenge, IF p = undefinedPkce THEN undefined ELSE p.codeChallenge>>,
       <<k_code_challenge_method, p.codeChallengeMethod>> >>
    \o o.additionalRequestPayload)

\* Mutant: the request is pushed only when the server requires it.
usesPushedAuthorizationRequest_onlyWhenRequired(metadata) ==
  metadata.require_pushed_authorization_requests

\* Whether createAuthorizationRequestUrl pushes the authorization request.
usesPushedAuthorizationRequest(metadata) ==
  \/ metadata.require_pushed_authorization_requests
  \/ Truthy(metadata.pushed_authorization_request_endpoint)

pushedAuthorizationRequest(o, random) ==
  LET params == authorizationRequestParams(o, random) IN
  [kind |-> "pushed_authorization_request",
   method |-> "POST",
   url |-> o.authorizationServerMetadata.pushed_authorization_request_endpoint,
   params |-> params,
   body |-> URLSearchParamsToString(params),
   pkceCodeVerifier |-> o.pkceCodeVerifier,
   pkce |-> authorizationRequestPkce(o, random)]

PushedAuthorizationResponseSet ==
  { [status |-> 201, request_uri |-> r, errorResponse |-> NoErrorResponse]
      : r \in {s_urn_x, s_urn_y} }
  \cup { [status |-> 400, request_uri |-> undefined,
          errorResponse |-> [error |-> "invalid_request"]] }

\* ${url}?${objectToQueryParams(object)}
urlWithQuery(url, object) ==
  Str(url) \o <<"?">> \o URLSearchParamsToString(objectToQueryParams(object))

\* ------------------------------------------------------------- the calls

NoOptions == [none |-> TRUE]
RandomSet == {s_random1, s_random2}

Oauth2ClientInitiateAuthorizationOptionsSet ==
  [authorizationServerMetadata : AuthorizationServerMetadataSet,
   clientId : {s_client},
   pkceCodeVerifier : {undefined, s_verifier},
   redirectUri : {s_redirect},
   scope : {s_scope},
   additionalRequestPayload : {<<>>, << <<k_ui_locales, s_locale>> >>}]

Oid4vciClientInitiateAuthorizationOptionsSet ==
  [credentialOffer : CredentialOfferSet,
   issuerMetadata : IssuerMetadataSet,
   clientId : {s_client},
   pkceCodeVerifier : {undefined, s_verifier},
   redirectUri : {s_redirect},
   scope : {s_scope},
   additionalRequestPayload : {<<>>, << <<k_ui_locales, s_locale>> >>}]

Init ==
  /\ call = "none"
  /\ pc = "idle"
  /\ opts = NoOptions
  /\ oauth2Options = NoOptions
  /\ pkce = undefinedPkce
  /\ sent = <<>>
  /\ received = <<>>
  /\ built = <<>>
  /\ challenge = NoResult
  /\ result = NoResult

\* Mutant: the catch block tests for the wrong error code.
isPresentationDuringIssuance_wrongCode(error) ==
  /\ error.type = "Oauth2ClientAuthorizationChallengeError"
  /\ error.errorResponse.error = RedirectToWeb
  /\ Truthy(error.errorResponse.presentation)
  /\ Truthy(error.errorResponse.auth_session)

\* The catch block of Oid4vciClient.initiateAuthorization: the authorization
\* server asks for a presentation before issuance.
isPresentationDuringIssuance(error) ==
  /\ error.type = "Oauth2ClientAuthorizationChallengeError"
  /\ error.errorResponse.error = InsufficientAuthorization
  /\ Truthy(error.errorResponse.presentation)
  /\ Truthy(error.errorResponse.auth_session)

\* What Oid4vciClient.initiateAuthorization makes of the outcome of
\* Oauth2Client.initiateAuthorization.
Oid4vciClient_settle(metadata, outcome) ==
  IF outcome.kind = "return"
  THEN Return([authorizationFlow |-> Oauth2Redirect,
               authorizationServer |-> metadata.issuer] @@ outcome.value)
  ELSE IF isPresentationDuringIssuance(outcome.error)
  THEN Return([authorizationFlow |-> PresentationDuringIssuance,
               oid4vpRequestUrl |-> outcome.error.errorResponse.presentation,
               authSession |-> outcome.error.errorResponse.auth_session,
               authorizationServer |-> metadata.issuer])
  ELSE outcome

\* What createAuthorizationRequestUrlFromOffer makes of the outcome of
\* Oauth2Client.createAuthorizationRequestUrl.
createAuthorizationRequestUrlFromOffer_settle(metadata, outcome) ==
  IF outcome.kind = "return"
  THEN Return([authorizationRequestUrl |-> outcome.value.authorizationRequestUrl,
               pkce |-> outcome.value.pkce,
               authorizationServer |-> metadata.issuer])
  ELSE outcome

\* The call settles with the outcome of the Oauth2Client method it rests on.
Settle(layer, metadata, outcome) ==
  /\ pc' = "done"
  /\ result' = IF layer = "Oid4vciClient.initiateAuthorization"
               THEN Oid4vciClient_settle(metadata, outcome)
               ELSE IF layer = "Oid4vciClient.createAuthorizationRequestUrlFromOffer"
               THEN createAuthorizationRequestUrlFromOffer_settle(metadata, outcome)
               ELSE outcome

\* Oauth2Client.createAuthorizationRequestUrl: push the request when the
\* server wants that, otherwise put the parameters into the url.
createAuthorizationRequestUrl(layer, o, random) ==
  LET metadata == o.authorizationServerMetadata IN
  IF ~Truthy(metadata.authorization_endpoint)
  THEN /\ Settle(layer, metadata, Throw(Oauth2Error("missing authorization_endpoint")))
       /\ UNCHANGED <<sent, built>>
  ELSE IF usesPushedAuthorizationRequest(metadata)
  THEN IF ~Truthy(metadata.pushed_authorization_request_endpoint)
       THEN /\ Settle(layer, metadata,
                      Throw(Oauth2Error("missing pushed_authorization_request_endpoint")))
            /\ UNCHANGED <<sent, built>>
       ELSE /\ sent' = Append(sent, pushedAuthorizationRequest(o, random))
            /\ pc' = "await_par"
            /\ UNCHANGED <<built, result>>
  ELSE LET url == Str(metadata.authorization_endpoint) \o <<"?">>
                    \o URLSearchParamsToString(authorizationRequestParams(o, random)) IN
       /\ built' = Append(built, url)
       /\ Settle(layer, metadata,
                 Return([authorizationRequestUrl |-> url,
                         pkce |-> authorizationRequestPkce(o, random)]))
       /\ UNCHANGED sent

\* Mutant: the caller's verifier is handed on instead of the one of the pkce
\* pair made for the challenge.
authorizationRequestOptions_callerVerifier(o, p) ==
  [authorizationServerMetadata |-> o.authorizationServerMetadata,
   clientId |-> o.clientId,
   additionalRequestPayload |-> o.additionalRequestPayload,
   redirectUri |-> o.redirectUri,
   scope |-> o.scope,
   pkceCodeVerifier |-> o.pkceCodeVerifier]

\* The options initiateAuthorization hands to createAuthorizationRequestUrl.
authorizationRequestOptions(o, p) ==
  [authorizationServerMetadata |-> o.authorizationServerMetadata,
   clientId |-> o.clientId,
   additionalRequestPayload |-> o.additionalRequestPayload,
   redirectUri |-> o.redirectUri,
   scope |-> o.scope,
   pkceCodeVerifier |-> pkceCodeVerifierOf(p)]

\* The options initiateAuthorization hands to sendAuthorizationChallengeRequest.
authorizationChallengeOptions(o, p) ==
  [authorizationServerMetadata |-> o.authorizationServerMetadata,
   additionalRequestPayload |-> o.additionalRequestPayload,
   clientId |-> o.clientId,
   pkceCodeVerifier |-> pkceCodeVerifierOf(p),
   scope |-> o.scope,
   authSession |-> undefined,
   presentationDuringIssuanceSession |-> undefined]

\* Mutant: the pushed authorization request is sent along with the
\* authorization challenge request, before that one has resolved.
Oauth2Client_initiateAuthorization_parallel(layer, o, random) ==
  LET metadata == o.authorizationServerMetadata
      p == IF metadata.code_challenge_methods_supported # undefinedArray
           THEN createPkce(metadata.code_challenge_methods_supported,
                           o.pkceCodeVerifier, random)
           ELSE undefinedPkce
  IN /\ oauth2Options' = o
     /\ pkce' = p
     /\ UNCHANGED challenge
     /\ IF Truthy(metadata.authorization_challenge_endpoint)
        THEN /\ sent' = sent \o
                  << authorizationChallengeRequest(
                       authorizationChallengeOptions(o, p), random),
                     pushedAuthorizationRequest(authorizationRequestOptions(o, p), random) >>
             /\ pc' = "await_challenge"
             /\ UNCHANGED <<built, result>>
        ELSE createAuthorizationRequestUrl(layer, authorizationRequestOptions(o, p), random)

\* Oauth2Client.initiateAuthorization up to its first await that suspends.
Oauth2Client_initiateAuthorization(layer, o, random) ==
  LET metadata == o.authorizationServerMetadata
      p == IF metadata.code_challenge_methods_supported # undefinedArray
           THEN createPkce(metadata.code_challenge_methods_supported,
                           o.pkceCodeVerifier, random)
           ELSE undefinedPkce
  IN /\ oauth2Options' = o
     /\ pkce' = p
     /\ UNCHANGED challenge
     /\ IF Truthy(metadata.authorization_challenge_endpoint)
        THEN /\ sent' = Append(sent, authorizationChallengeRequest(
                                        authorizationChallengeOptions(o, p), random))
             /\ pc' = "await_challenge"
             /\ UNCHANGED <<built, result>>
        ELSE createAuthorizationRequestUrl(layer, authorizationRequestOptions(o, p), random)

\* A caller invokes Oauth2Client.initiateAuthorization.
CallOauth2ClientInitiateAuthorization ==
  /\ call = "none"
  /\ \E o \in Oauth2ClientInitiateAuthorizationOptionsSet, random \in RandomSet :
       /\ call' = "Oauth2Client.initiateAuthorization"
       /\ opts' = o
       /\ UNCHANGED received
       /\ Oauth2Client_initiateAuthorization("Oauth2Client.initiateAuthorization", o, random)

\* A caller invokes Oid4vciClient.initiateAuthorization.
CallOid4vciClientInitiateAuthorization ==
  /\ call = "none"
  /\ \E o \in Oid4vciClientInitiateAuthorizationOptionsSet, random \in RandomSet :
       LET grants == o.credentialOffer.grants
           hasGrant == grants # NoGrant /\ grants.authorization_code # NoGrant
           authorizationServer ==
             determineAuthorizationServerForCredentialOffer(
               o.issuerMetadata, grants.authorization_code.authorization_server)
           authorizationServerMetadata ==
             getAuthorizationServerMetadataFromList(
               o.issuerMetadata.authorizationServers, authorizationServer.value)
       IN
       /\ call' = "Oid4vciClient.initiateAuthorization"
       /\ opts' = o
       /\ UNCHANGED received
       /\ IF ~hasGrant
          THEN /\ pc' = "done"
               /\ result' = Throw(Oauth2Error("missing authorization_code grant"))
               /\ UNCHANGED <<oauth2Options, pkce, sent, built, challenge>>
          ELSE IF authorizationServer.kind = "throw"
          THEN /\ pc' = "done"
               /\ result' = authorizationServer
               /\ UNCHANGED <<oauth2Options, pkce, sent, built, challenge>>
          ELSE IF authorizationServerMetadata.kind = "throw"
          THEN /\ pc' = "done"
               /\ result' = authorizationServerMetadata
               /\ UNCHANGED <<oauth2Options, pkce, sent, built, challenge>>
          ELSE Oauth2Client_initiateAuthorization(
                 "Oid4vciClient.initiateAuthorization",
                 [clientId |-> o.clientId,
                  pkceCodeVerifier |-> o.pkceCodeVerifier,
                  redirectUri |-> o.redirectUri,
                  scope |-> o.scope,
                  authorizationServerMetadata |-> authorizationServerMetadata.value,
                  additionalRequestPayload |-> <<>>],
                 random)

\* Mutant: every authorization challenge error response counts as recoverable.
isRecoverableError_anyChallengeError(error) ==
  error.type = "Oauth2ClientAuthorizationChallengeError"

\* error instanceof Oauth2ClientAuthorizationChallengeError &&
\* error.errorResponse.error === Oauth2ErrorCodes.RedirectToWeb
isRecoverableError(error) ==
  /\ error.type = "Oauth2ClientAuthorizationChallengeError"
  /\ error.errorResponse.error = RedirectToWeb

\* Mutant: the request_uri is put into the url as it came, not as a query
\* parameter value.
requestUriAuthorizationRequestUrl_unencoded(o, error) ==
  Str(o.authorizationServerMetadata.authorization_endpoint)
  \o <<"?">> \o k_request_uri \o <<"=">> \o error.errorResponse.request_uri
  \o <<"&">> \o k_client_id \o <<"=">> \o o.clientId

\* The url built from the request_uri of a redirect_to_web error.
requestUriAuthorizationRequestUrl(o, error) ==
  urlWithQuery(o.authorizationServerMetadata.authorization_endpoint,
               << <<k_request_uri, error.errorResponse.request_uri>>,
                  <<k_client_id, o.clientId>> >>)

\* The authorization challenge request resolves: the rest of
\* Oauth2Client.initiateAuthorization up to its next await.
AuthorizationChallengeResponse ==
  /\ pc = "await_challenge"
  /\ \E response \in AuthorizationChallengeResponseSet, random \in RandomSet :
       LET outcome == authorizationChallengeOutcome(response)
           o == oauth2Options
           metadata == o.authorizationServerMetadata
       IN
       /\ challenge' = outcome
       /\ received' = Append(received, response)
       /\ UNCHANGED <<call, opts, oauth2Options, pkce>>
       /\ IF outcome.kind = "throw" /\ ~isRecoverableError(outcome.error)
          THEN /\ Settle(call, metadata, outcome)
               /\ UNCHANGED <<sent, built>>
          ELSE IF outcome.kind = "throw" /\ Truthy(outcome.error.errorResponse.request_uri)
          THEN LET authorizationRequestUrl ==
                     requestUriAuthorizationRequestUrl(o, outcome.error) IN
               /\ built' = Append(built, authorizationRequestUrl)
               /\ Settle(call, metadata,
                         Return([authorizationRequestUrl |-> authorizationRequestUrl,
                                 pkce |-> pkce]))
               /\ UNCHANGED sent
          ELSE createAuthorizationRequestUrl(call, authorizationRequestOptions(o, pkce), random)

\* The pushed authorization request resolves: the rest of
\* createAuthorizationRequestUrl.
PushedAuthorizationResponse ==
  /\ pc = "await_par"
  /\ \E response \in PushedAuthorizationResponseSet :
       LET o == oauth2Options
           metadata == o.authorizationServerMetadata
           request == sent[Len(sent)]
       IN
       /\ received' = Append(received, response)
       /\ UNCHANGED <<call, opts, oauth2Options, pkce, sent, challenge>>
       /\ IF response.status = 201
          THEN LET url == urlWithQuery(metadata.authorization_endpoint,
                                       << <<k_request_uri, response.request_uri>>,
                                          <<k_client_id, o.clientId>> >>) IN
               /\ built' = Append(built, url)
               /\ Settle(call, metadata,
                         Return([authorizationRequestUrl |-> url, pkce |-> request.pkce]))
          ELSE /\ Settle(call, metadata,
                         Throw(Oauth2ClientError(response.errorResponse)))
               /\ UNCHANGED built

\* ----------------------------------------------------------- DPoP proofs

NoDpop == [absent |-> TRUE]
NoJwt == [absent |-> TRUE]

jwkA == [kty |-> "EC", crv |-> "P-256", x |-> "xA", y |-> "yA", kid |-> "none"]
jwkAWithKid == [kty |-> "EC", crv |-> "P-256", x |-> "xA", y |-> "yA", kid |-> "key-1"]
jwkB == [kty |-> "EC", crv |-> "P-256", x |-> "xB", y |-> "yB", kid |-> "none"]
JwkSet == {jwkA, jwkAWithKid, jwkB}

\* calculateJwkThumbprint (RFC 7638): the hash over the required members of
\* the key in lexicographic order; other members do not count.  The hash is
\* kept symbolic and injective.
calculateJwkThumbprint(jwk) == <<"sha-256", jwk.crv, jwk.kty, jwk.x, jwk.y>>

\* The url of a request without its query and fragment.
htuOf(url) ==
  LET ends == { i \in DOMAIN url : url[i] \in {"?", "#"} } IN
  IF ends = {} THEN url
  ELSE SubSeq(url, 1, (CHOOSE i \in ends : \A j \in ends : i <= j) - 1)

\* createDpopJwt: the proof for a request, signed with the caller's key.
createDpopJwt(signer, method, url, nonce, accessToken, jti, now) ==
  [header |-> [typ |-> "dpop+jwt", alg |-> signer.alg, jwk |-> signer.publicJwk],
   payload |-> [jti |-> jti,
                htm |-> method,
                htu |-> htuOf(url),
                iat |-> now,
                nonce |-> nonce,
                ath |-> IF accessToken = undefined THEN undefined
                        ELSE sha256Base64Url(accessToken)],
   signedBy |-> calculateJwkThumbprint(signer.publicJwk)]

\* --------------------------------------------------------- token requests

RECURSIVE objectSpread(_, _)
\* { ...object, ...entries }: a later entry replaces the value of a key the
\* object has, and is added at the end otherwise.
objectSpread(object, entries) ==
  IF entries = <<>> THEN object
  ELSE LET key == entries[1][1]
           value == entries[1][2]
           set == IF \E i \in DOMAIN object : object[i][1] = key
                  THEN [i \in DOMAIN object |->
                          IF object[i][1] = key THEN <<key, value>> ELSE object[i]]
                  ELSE Append(object, <<key, value>>)
       IN objectSpread(set, Tail(entries))

s_token_query == s_token \o <<"?","v","=","1">>

TokenServerMetadataSet ==
  { m \in AuthorizationServerMetadataSet :
      /\ m.authorization_endpoint = s_authorize
      /\ m.authorization_challenge_endpoint = undefined
      /\ m.pushed_authorization_request_endpoint = undefined
      /\ ~m.require_pushed_authorization_requests
      /\ m.code_challenge_methods_supported = <<S256>> }
  \cup { [secondAuthorizationServer EXCEPT !.token_endpoint = s_token_query] }

DpopOptionsSet ==
  { NoDpop }
  \cup { [signer |-> [method |-> "jwk", alg |-> "ES256", publicJwk |-> jwk],
          nonce |-> undefined] : jwk \in {jwkA, jwkB} }

RetrievePreAuthorizedCodeAccessTokenOptionsSet ==
  [authorizationServerMetadata : TokenServerMetadataSet,
   preAuthorizedCode : {s_code},
   txCode : {undefined, s_tx_code},
   additionalRequestPayload : {<<>>, << <<k_tx_code, s_session>> >>},
   dpop : DpopOptionsSet]

RetrieveAuthorizationCodeAccessTokenOptionsSet ==
  [authorizationServerMetadata : TokenServerMetadataSet,
   authorizationCode : {s_code},
   pkceCodeVerifier : {undefined, s_verifier},
   redirectUri : {undefined, s_redirect},
   additionalRequestPayload : {<<>>},
   dpop : DpopOptionsSet]

\* Mutant: a missing txCode is handed on as an empty tx_code.
retrievePreAuthorizedCodeAccessTokenOptions_emptyTxCode(o) ==
  [grant |-> preAuthorizedCodeGrantIdentifier,
   authorizationServerMetadata |-> o.authorizationServerMetadata,
   preAuthorizedCode |-> o.preAuthorizedCode,
   txCode |-> o.txCode,
   additionalRequestPayload |->
     objectSpread(o.additionalRequestPayload,
                  << <<k_tx_code, IF o.txCode = undefined THEN <<>> ELSE o.txCode>> >>),
   dpop |-> o.dpop]

\* Mutant: the dpop option is not handed on.
retrievePreAuthorizedCodeAccessTokenOptions_withoutDpop(o) ==
  [grant |-> preAuthorizedCodeGrantIdentifier,
   authorizationServerMetadata |-> o.authorizationServerMetadata,
   preAuthorizedCode |-> o.preAuthorizedCode,
   txCode |-> o.txCode,
   additionalRequestPayload |->
     objectSpread(o.additionalRequestPayload, << <<k_tx_code, o.txCode>> >>),
   dpop |-> NoDpop]

\* Oauth2Client.retrievePreAuthorizedCodeAccessToken: the options it hands to
\* retrievePreAuthorizedCodeAccessToken.
retrievePreAuthorizedCodeAccessTokenOptions(o) ==
  [grant |-> preAuthorizedCodeGrantIdentifier,
   authorizationServerMetadata |-> o.authorizationServerMetadata,
   preAuthorizedCode |-> o.preAuthorizedCode,
   txCode |-> o.txCode,
   additionalRequestPayload |->
     objectSpread(o.additionalRequestPayload, << <<k_tx_code, o.txCode>> >>),
   dpop |-> o.dpop]

\* Oauth2Client.retrieveAuthorizationCodeAccessToken: the options it hands to
\* retrieveAuthorizationCodeAccessToken.
retrieveAuthorizationCodeAccessTokenOptions(o) ==
  [grant |-> authorizationCodeGrantIdentifier,
   authorizationServerMetadata |-> o.authorizationServerMetadata,
   authorizationCode |-> o.authorizationCode,
   pkceCodeVerifier |-> o.pkceCodeVerifier,
   additionalRequestPayload |-> o.additionalRequestPayload,
   dpop |-> o.dpop,
   redirectUri |-> o.redirectUri]

\* The parameters of the access token request of a grant.
accessTokenRequestParams(o) ==
  objectToQueryParams(
    IF o.grant = preAuthorizedCodeGrantIdentifier
    THEN objectSpread(<< <<k_pre_authorized_code, o.preAuthorizedCode>>,
                         <<k_tx_code, o.txCode>>,
                         <<k_grant_type, preAuthorizedCodeGrantIdentifier>> >>,
                      o.additionalRequestPayload)
    ELSE objectSpread(<< <<k_code, o.authorizationCode>>,
                         <<k_redirect_uri, o.redirectUri>>,
                         <<k_code_verifier, o.pkceCodeVerifier>>,
                         <<k_grant_type, authorizationCodeGrantIdentifier>> >>,
                      o.additionalRequestPayload))

\* The form-encoded POST to the token endpoint, with a DPoP proof when the
\* caller gave a signer.
accessTokenRequest(o, nonce, jti, now) ==
  LET params == accessTokenRequestParams(o)
      url == o.authorizationServerMetadata.token_endpoint IN
  [kind |-> "access_token",
   method |-> "POST",
   url |-> url,
   params |-> params,
   body |-> URLSearchParamsToString(params),
   dpop |-> IF o.dpop = NoDpop THEN NoJwt
            ELSE createDpopJwt(o.dpop.signer, "POST", url, nonce, undefined, jti, now)]

UseDpopNonce == "use_dpop_nonce"
NowSet == {1000, 1030}

AccessTokenResponseSet ==
  { [status |-> 200, dpopNonce |-> n, errorResponse |-> NoErrorResponse,
     accessTokenResponse |-> [access_token |-> at, token_type |-> tt, c_nonce |-> s_nonce2]]
      : n \in {undefined, s_nonce1}, at \in {<<"T","1">>, <<"T","2">>},
        tt \in {"Bearer", "DPoP"} }
  \cup { [status |-> st, dpopNonce |-> n, errorResponse |-> [error |-> e],
          accessTokenResponse |-> NoResult]
          : st \in {400, 401}, n \in {undefined, s_nonce1, s_nonce2},
            e \in {UseDpopNonce, "invalid_grant"} }
  \cup { [status |-> 500, dpopNonce |-> undefined, errorResponse |-> NoErrorResponse,
          accessTokenResponse |-> NoResult] }

\* The DPoP nonce handshake: a 400 use_dpop_nonce answer that carries a
\* DPoP-Nonce header is retried, once, when a DPoP signer is in use.
shouldRetryWithDpopNonce(dpop, attempt, response) ==
  /\ dpop # NoDpop
  /\ attempt = 1
  /\ response.status = 400
  /\ response.errorResponse # NoErrorResponse
  /\ response.errorResponse.error = UseDpopNonce
  /\ Truthy(response.dpopNonce)

\* What a token response that is not retried resolves to.
accessTokenOutcome(o, response) ==
  IF response.status = 200
  THEN Return([accessTokenResponse |-> response.accessTokenResponse,
               dpop |-> IF o.dpop = NoDpop THEN NoDpop
                        ELSE [signer |-> o.dpop.signer, nonce |-> response.dpopNonce]])
  ELSE IF response.errorResponse # NoErrorResponse
  THEN Throw(Oauth2ClientError(response.errorResponse))
  ELSE Throw(InvalidFetchResponseError)

\* Mutant: a failed token request resolves to nothing instead of throwing.
retrieveAccessTokenResult_swallowed(outcome) ==
  IF outcome.kind = "throw" THEN Return(undefined) ELSE outcome

\* Oauth2Client.retrieve...AccessToken: const result = await ...; return result
retrieveAccessTokenResult(outcome) == outcome

CallRetrievePreAuthorizedCodeAccessToken ==
  /\ call = "none"
  /\ \E o \in RetrievePreAuthorizedCodeAccessTokenOptionsSet,
        jti \in RandomSet, now \in NowSet :
       LET inner == retrievePreAuthorizedCodeAccessTokenOptions(o) IN
       /\ call' = "Oauth2Client.retrievePreAuthorizedCodeAccessToken"
       /\ opts' = o
       /\ oauth2Options' = inner
       /\ sent' = Append(sent, accessTokenRequest(inner, undefined, jti, now))
       /\ pc' = "await_token"
       /\ UNCHANGED <<pkce, received, built, challenge, result>>

CallRetrieveAuthorizationCodeAccessToken ==
  /\ call = "none"
  /\ \E o \in RetrieveAuthorizationCodeAccessTokenOptionsSet,
        jti \in RandomSet, now \in NowSet :
       LET inner == retrieveAuthorizationCodeAccessTokenOptions(o) IN
       /\ call' = "Oauth2Client.retrieveAuthorizationCodeAccessToken"
       /\ opts' = o
       /\ oauth2Options' = inner
       /\ sent' = Append(sent, accessTokenRequest(inner, undefined, jti, now))
       /\ pc' = "await_token"
       /\ UNCHANGED <<pkce, received, built, challenge, result>>

\* ------------------------------------- access token for a credential offer

\* Issuer metadata with one or with two authorization servers that have a
\* token endpoint.
TokenIssuerMetadataSet ==
  { m \in IssuerMetadataSet : m.authorizationServers[1] \in TokenServerMetadataSet }

\* The grants of a resolved credential offer.
OfferedGrantsSet ==
  { NoGrants, [authorization_code |-> NoGrant, pre_authorized_code |-> NoGrant] }
  \cup { [authorization_code |-> [issuer_state |-> s_state, authorization_server |-> as],
          pre_authorized_code |-> NoGrant]
         : as \in {undefined, s_https_as2, s_https_x} }
  \cup { [authorization_code |-> NoGrant,
          pre_authorized_code |->
            [pre_authorized_code |-> s_code, user_pin_required |-> "undefined",
             tx_code |-> tx_code, authorization_server |-> as]]
         : as \in {undefined, s_https_as, s_https_as2, s_https_x},
           tx_code \in { NoTxCode,
                         [input_mode |-> "numeric", length |-> "4",
                          description |-> undefined] } }

ResolvedCredentialOfferSet ==
  { [credential_issuer |-> s_https_iss,
     credentials |-> undefinedArray,
     credential_configuration_ids |-> << <<"p","i","d">> >>,
     grants |-> grants,
     extra |-> undefined] : grants \in OfferedGrantsSet }

RetrievePreAuthorizedCodeAccessTokenFromOfferOptionsSet ==
  [credentialOffer : ResolvedCredentialOfferSet,
   issuerMetadata : TokenIssuerMetadataSet,
   additionalRequestPayload : {<<>>, << <<k_ui_locales, s_locale>> >>},
   txCode : {undefined, <<>>, s_tx_code},
   dpop : {NoDpop, [signer |-> [method |-> "jwk", alg |-> "ES256", publicJwk |-> jwkA],
                    nonce |-> undefined]}]

RetrieveAuthorizationCodeAccessTokenFromOfferOptionsSet ==
  [credentialOffer : ResolvedCredentialOfferSet,
   issuerMetadata : TokenIssuerMetadataSet,
   additionalRequestPayload : {<<>>},
   authorizationCode : {s_code},
   pkceCodeVerifier : {undefined, s_verifier},
   redirectUri : {s_redirect},
   dpop : {NoDpop}]

FromOfferCalls ==
  {"Oid4vciClient.retrievePreAuthorizedCodeAccessTokenFromOffer",
   "Oid4vciClient.retrieveAuthorizationCodeAccessTokenFromOffer"}

\* credentialOffer.grants?.[grant]
grantOf(credentialOffer, grant) ==
  IF credentialOffer.grants = NoGrants THEN NoGrant
  ELSE IF grant = preAuthorizedCodeGrantIdentifier
       THEN credentialOffer.grants.pre_authorized_code
       ELSE credentialOffer.grants.authorization_code

\* Mutant: a grant that pins no authorization server gets the first listed one.
authorizationServerForOffer_firstListed(o, grant) ==
  LET picked == determineAuthorizationServerForCredentialOffer(
                  o.issuerMetadata, grantOf(o.credentialOffer, grant).authorization_server)
  IN  IF grantOf(o.credentialOffer, grant).authorization_server = undefined
      THEN Return(o.issuerMetadata.credentialIssuer.authorization_servers[1])
      ELSE picked

\* The authorization server of ...AccessTokenFromOffer for the grant it uses.
authorizationServerForOffer(o, grant) ==
  determineAuthorizationServerForCredentialOffer(
    o.issuerMetadata, grantOf(o.credentialOffer, grant).authorization_server)

\* Mutant: the grant is read without the check that the offer has it.
preAuthorizedCodeFromOfferFailure_unchecked(o) ==
  LET grant == grantOf(o.credentialOffer, preAuthorizedCodeGrantIdentifier) IN
  IF grant = NoGrant
  THEN Throw([type |-> "TypeError"])
  ELSE IF grant.tx_code # NoTxCode /\ ~Truthy(o.txCode)
  THEN Throw(Oauth2Error("missing txCode"))
  ELSE NoResult

\* Mutant: only an undefined txCode counts as not passed.
preAuthorizedCodeFromOfferFailure_undefinedOnly(o) ==
  LET grant == grantOf(o.credentialOffer, preAuthorizedCodeGrantIdentifier) IN
  IF grant = NoGrant
  THEN Throw(Oauth2Error("missing pre-authorized_code grant"))
  ELSE IF grant.tx_code # NoTxCode /\ o.txCode = undefined
  THEN Throw(Oauth2Error("missing txCode"))
  ELSE NoResult

\* retrievePreAuthorizedCodeAccessTokenFromOffer: what is thrown before the
\* authorization server is looked for, NoResult when nothing is.
preAuthorizedCodeFromOfferFailure(o) ==
  LET grant == grantOf(o.credentialOffer, preAuthorizedCodeGrantIdentifier) IN
  IF grant = NoGrant
  THEN Throw(Oauth2Error("missing pre-authorized_code grant"))
  ELSE IF grant.tx_code # NoTxCode /\ ~Truthy(o.txCode)
  THEN Throw(Oauth2Error("missing txCode"))
  ELSE NoResult

\* retrieveAuthorizationCodeAccessTokenFromOffer: likewise.
authorizationCodeFromOfferFailure(o) ==
  IF grantOf(o.credentialOffer, authorizationCodeGrantIdentifier) = NoGrant
  THEN Throw(Oauth2Error("missing authorization_code grant"))
  ELSE NoResult

\* The options the Oauth2Client is called with.
preAuthorizedCodeFromOfferOptions(o, authorizationServerMetadata) ==
  [authorizationServerMetadata |-> authorizationServerMetadata,
   preAuthorizedCode |->
     grantOf(o.credentialOffer, preAuthorizedCodeGrantIdentifier).pre_authorized_code,
   txCode |-> o.txCode,
   additionalRequestPayload |-> o.additionalRequestPayload,
   dpop |-> o.dpop]

authorizationCodeFromOfferOptions(o, authorizationServerMetadata) ==
  [authorizationServerMetadata |-> authorizationServerMetadata,
   authorizationCode |-> o.authorizationCode,
   pkceCodeVerifier |-> o.pkceCodeVerifier,
   additionalRequestPayload |-> o.additionalRequestPayload,
   dpop |-> o.dpop,
   redirectUri |-> o.redirectUri]

\* The common course of the two calls: fail early, select the authorization
\* server and its metadata, then send the access token request.
AccessTokenFromOffer(name, o, grant, failure, jti, now) ==
  LET inner(metadata) ==
        IF grant = preAuthorizedCodeGrantIdentifier
        THEN retrievePreAuthorizedCodeAccessTokenOptions(
               preAuthorizedCodeFromOfferOptions(o, metadata))
        ELSE retrieveAuthorizationCodeAccessTokenOptions(
               authorizationCodeFromOfferOptions(o, metadata))
      authorizationServer == authorizationServerForOffer(o, grant)
      authorizationServerMetadata ==
        getAuthorizationServerMetadataFromList(
          o.issuerMetadata.authorizationServers, authorizationServer.value)
      early == IF failure # NoResult THEN failure
               ELSE IF authorizationServer.kind = "throw" THEN authorizationServer
               ELSE IF authorizationServerMetadata.kind = "throw"
               THEN authorizationServerMetadata
               ELSE NoResult
  IN
  /\ call' = name
  /\ opts' = o
  /\ IF early # NoResult
     THEN /\ pc' = "done"
          /\ result' = early
          /\ UNCHANGED <<oauth2Options, sent>>
     ELSE /\ oauth2Options' = inner(authorizationServerMetadata.value)
          /\ sent' = Append(sent, accessTokenRequest(
                                    inner(authorizationServerMetadata.value),
                                    undefined, jti, now))
          /\ pc' = "await_token"
          /\ UNCHANGED result
  /\ UNCHANGED <<pkce, received, built, challenge>>

CallRetrievePreAuthorizedCodeAccessTokenFromOffer ==
  /\ call = "none"
  /\ \E o \in RetrievePreAuthorizedCodeAccessTokenFromOfferOptionsSet,
        jti \in RandomSet, now \in NowSet :
       AccessTokenFromOffer(
         "Oid4vciClient.retrievePreAuthorizedCodeAccessTokenFromOffer", o,
         preAuthorizedCodeGrantIdentifier, preAuthorizedCodeFromOfferFailure(o),
         jti, now)

CallRetrieveAuthorizationCodeAccessTokenFromOffer ==
  /\ call = "none"
  /\ \E o \in RetrieveAuthorizationCodeAccessTokenFromOfferOptionsSet,
        jti \in RandomSet, now \in NowSet :
       AccessTokenFromOffer(
         "Oid4vciClient.retrieveAuthorizationCodeAccessTokenFromOffer", o,
         authorizationCodeGrantIdentifier, authorizationCodeFromOfferFailure(o),
         jti, now)

\* return { ...result, authorizationServer }
fromOfferResult(name, o, outcome) ==
  IF name \in FromOfferCalls /\ outcome.kind = "return"
  THEN [kind |-> "return", value |-> outcome.value,
        authorizationServer |->
          authorizationServerForOffer(
            o, IF name = "Oid4vciClient.retrievePreAuthorizedCodeAccessTokenFromOffer"
               THEN preAuthorizedCodeGrantIdentifier
               ELSE authorizationCodeGrantIdentifier).value]
  ELSE outcome

\* The token endpoint answers: the request is sent again with the nonce of
\* the answer, or the call settles.
AccessTokenResponse ==
  /\ pc = "await_token"
  /\ \E response \in AccessTokenResponseSet, jti \in RandomSet, now \in NowSet :
       /\ received' = Append(received, response)
       /\ UNCHANGED <<call, opts, oauth2Options, pkce, built, challenge>>
       /\ IF shouldRetryWithDpopNonce(oauth2Options.dpop, Len(sent), response)
          THEN /\ sent' = Append(sent, accessTokenRequest(oauth2Options,
                                                          response.dpopNonce, jti, now))
               /\ UNCHANGED <<pc, result>>
          ELSE /\ pc' = "done"
               /\ result' = fromOfferResult(call, opts,
                              retrieveAccessTokenResult(
                                accessTokenOutcome(oauth2Options, response)))
               /\ UNCHANGED sent

\* ------------------------------------------------------ access token issuance

undefinedJwk == [kty |-> "undefined"]
NoCnf == [absent |-> TRUE]

jwkAS == [kty |-> "EC", crv |-> "P-256", x |-> "xS", y |-> "yS", kid |-> "as-1"]

s_subject == <<"s","u","b">>
s_jwks == s_https_as \o <<"/","j","w","k","s">>
s_credential == s_https_iss \o <<"/","c","r","e","d">>
s_credential_query == s_credential \o <<"?","a","=","1">>
s_opaque == <<"T","1">>

\* The compact serialization of a JWT, and its decoding; a string that is
\* not a compact JWT does not decode.
jwtCompact(jwt) == <<"eyJ", jwt>>
isJwt(token) == Len(token) = 2 /\ token[1] = "eyJ"
decodeJwt(token) == token[2]

CreateAccessTokenOptionsSet ==
  [audience : {s_https_iss, s_https_x},
   authorizationServer : {s_https_as, s_https_x},
   expiresInSeconds : {60, 300},
   subject : {s_subject},
   scope : {undefined, s_scope},
   clientId : {undefined, s_client},
   signer : { [method |-> "jwk", alg |-> "ES256", publicJwk |-> jwk]
                : jwk \in {jwkAS, jwkB} },
   dpopJwk : {undefinedJwk} \cup JwkSet,
   now : {1000},
   cNonce : {undefined, s_nonce1},
   cNonceExpiresIn : {100}]

\* createAccessTokenJwt: header typ at+jwt; payload iss, aud, sub, iat,
\* exp = iat + expiresInSeconds, jti, scope?, client_id?, cnf.jkt?.
createAccessTokenJwt(o, jti) ==
  [header |-> [typ |-> "at+jwt", alg |-> o.signer.alg],
   payload |-> [iss |-> o.authorizationServer,
                aud |-> o.audience,
                sub |-> o.subject,
                iat |-> o.now,
                exp |-> o.now + o.expiresInSeconds,
                jti |-> jti,
                scope |-> o.scope,
                client_id |-> o.clientId,
                cnf |-> IF o.dpopJwk = undefinedJwk THEN NoCnf
                        ELSE [jkt |-> calculateJwkThumbprint(o.dpopJwk)]],
   signedBy |-> calculateJwkThumbprint(o.signer.publicJwk)]

\* createAccessTokenResponse: access_token, token_type, expires_in, c_nonce?,
\* c_nonce_expires_in?.
createAccessTokenResponse(o) ==
  [access_token |-> o.accessToken,
   token_type |-> o.tokenType,
   expires_in |-> o.expiresInSeconds,
   c_nonce |-> o.cNonce,
   c_nonce_expires_in |-> o.cNonceExpiresIn]

\* Mutant: the token is bound to the key that signs it.
createAccessTokenJwtOptions_signerKey(options) ==
  [audience |-> options.audience,
   authorizationServer |-> options.authorizationServer,
   expiresInSeconds |-> options.expiresInSeconds,
   subject |-> options.subject,
   scope |-> options.scope,
   clientId |-> options.clientId,
   signer |-> options.signer,
   dpopJwk |-> IF options.dpopJwk = undefinedJwk THEN undefinedJwk
               ELSE options.signer.publicJwk,
   now |-> options.now]

\* Oauth2AuthorizationServer.createAccessToken: the options it hands to
\* createAccessTokenJwt.
createAccessTokenJwtOptions(options) ==
  [audience |-> options.audience,
   authorizationServer |-> options.authorizationServer,
   expiresInSeconds |-> options.expiresInSeconds,
   subject |-> options.subject,
   scope |-> options.scope,
   clientId |-> options.clientId,
   signer |-> options.signer,
   dpopJwk |-> options.dpopJwk,
   now |-> options.now]

\* Mutant: the response names every token a Bearer token.
createAccessTokenResponseOptions_bearer(options, accessToken) ==
  [accessToken |-> accessToken,
   expiresInSeconds |-> options.expiresInSeconds,
   tokenType |-> "Bearer",
   cNonce |-> options.cNonce,
   cNonceExpiresIn |-> options.cNonceExpiresIn]

\* Oauth2AuthorizationServer.createAccessToken: the options it hands to
\* createAccessTokenResponse.
createAccessTokenResponseOptions(options, accessToken) ==
  [accessToken |-> accessToken,
   expiresInSeconds |-> options.expiresInSeconds,
   tokenType |-> IF options.dpopJwk # undefinedJwk THEN "DPoP" ELSE "Bearer",
   cNonce |-> options.cNonce,
   cNonceExpiresIn |-> options.cNonceExpiresIn]

createAccessToken(options, jti) ==
  LET accessToken == jwtCompact(createAccessTokenJwt(createAccessTokenJwtOptions(options), jti))
  IN  createAccessTokenResponse(createAccessTokenResponseOptions(options, accessToken))

CallCreateAccessToken ==
  /\ call = "none"
  /\ \E o \in CreateAccessTokenOptionsSet, jti \in RandomSet :
       /\ call' = "Oauth2AuthorizationServer.createAccessToken"
       /\ opts' = o
       /\ oauth2Options' = createAccessTokenJwtOptions(o)
       /\ result' = Return(createAccessToken(o, jti))
       /\ pc' = "done"
       /\ UNCHANGED <<pkce, sent, received, built, challenge>>

\* ------------------------------------------------ resource request verification

ClockSkew == 60

verifyResourceRequestError(error) ==
  [type |-> "Oauth2ResourceUnauthorizedError", error |-> error]

ResourceAuthorizationServersSet ==
  { << [issuer |-> s_https_as, jwks_uri |-> s_jwks] >>,
    << [issuer |-> s_https_as2, jwks_uri |-> s_https_as2],
       [issuer |-> s_https_as, jwks_uri |-> s_jwks] >> }

\* The access tokens a resource request may carry: tokens an authorization
\* server mints, tokens of another issuer, audience or signing key, and a
\* string that is not a JWT.
ResourceAccessTokenSet ==
  { createAccessToken(o, s_random1).access_token :
      o \in { c \in CreateAccessTokenOptionsSet :
                /\ c.expiresInSeconds = 60
                /\ c.scope = s_scope
                /\ c.clientId = undefined
                /\ c.cNonce = undefined
                /\ c.dpopJwk # jwkAWithKid } }
  \cup { s_opaque }

ResourceNowSet == {939, 940, 1030, 1059, 1060}

ResourceDpopVariants ==
  { "none", "good", "other key", "other method", "other url", "other token",
    "other typ", "other alg", "other signature",
    "before window", "window start", "window end", "after window" }

\* The DPoP headers a resource request may carry: none, the proof a client
\* makes for the request with either key, and that proof with one part wrong.
ResourceDpop(variant, accessToken, now) ==
  LET signerOf(jwk) == [method |-> "jwk", alg |-> "ES256", publicJwk |-> jwk]
      proof(jwk, method, url, token, iat) ==
        createDpopJwt(signerOf(jwk), method, url, undefined, token, s_random2, iat)
      good == proof(jwkA, "POST", s_credential_query, accessToken, now)
  IN  CASE variant = "none" -> NoJwt
        [] variant = "good" -> good
        [] variant = "other key" ->
             proof(jwkB, "POST", s_credential_query, accessToken, now)
        [] variant = "other method" ->
             proof(jwkA, "GET", s_credential_query, accessToken, now)
        [] variant = "other url" -> proof(jwkA, "POST", s_https_x, accessToken, now)
        [] variant = "other token" ->
             proof(jwkA, "POST", s_credential_query, <<"T","2">>, now)
        [] variant = "other typ" -> [good EXCEPT !.header.typ = "jwt"]
        [] variant = "other alg" -> [good EXCEPT !.header.alg = "HS256"]
        [] variant = "other signature" ->
             [good EXCEPT !.signedBy = calculateJwkThumbprint(jwkB)]
        [] variant = "before window" ->
             proof(jwkA, "POST", s_credential_query, accessToken, now - ClockSkew - 1)
        [] variant = "window start" ->
             proof(jwkA, "POST", s_credential_query, accessToken, now - ClockSkew)
        [] variant = "window end" ->
             proof(jwkA, "POST", s_credential_query, accessToken, now + ClockSkew)
        [] variant = "after window" ->
             proof(jwkA, "POST", s_credential_query, accessToken, now + ClockSkew + 1)

VerifyResourceRequestOptionsSet ==
  { [request |-> [method |-> "POST", url |-> s_credential_query,
                  scheme |-> scheme, accessToken |-> accessToken,
                  dpop |-> ResourceDpop(variant, accessToken, now)],
     authorizationServers |-> servers,
     resourceServer |-> s_https_iss,
     allowedAuthenticationSchemes |-> allowed,
     now |-> now]
      : scheme \in {"Bearer", "DPoP", "Basic"},
        accessToken \in ResourceAccessTokenSet,
        servers \in ResourceAuthorizationServersSet,
        allowed \in {{"DPoP"}, {"Bearer", "DPoP"}},
        now \in ResourceNowSet,
        variant \in ResourceDpopVariants }

JwksResponseSet ==
  { [status |-> 200, keys |-> {jwkAS}],
    [status |-> 200, keys |-> {jwkB}],
    [status |-> 500, keys |-> {}] }

\* Step 1: the scheme is Bearer or DPoP and is one of the allowed schemes.
authenticationSchemeAllowed(o) ==
  /\ o.request.scheme \in {"Bearer", "DPoP"}
  /\ o.request.scheme \in o.allowedAuthenticationSchemes

\* Step 2: the token decodes and its iss is one of the authorization servers.
issuerKnown(o) ==
  /\ isJwt(o.request.accessToken)
  /\ \E i \in DOMAIN o.authorizationServers :
       o.authorizationServers[i].issuer = decodeJwt(o.request.accessToken).payload.iss

authorizationServerOf(o) ==
  o.authorizationServers[
    CHOOSE i \in DOMAIN o.authorizationServers :
      o.authorizationServers[i].issuer = decodeJwt(o.request.accessToken).payload.iss]

\* Step 3: the access token JWT verifies against the keys of its issuer.
accessTokenJwtVerified(jwt, jwks) ==
  /\ jwks.status = 200
  /\ jwt.header.typ = "at+jwt"
  /\ \E key \in jwks.keys : jwt.signedBy = calculateJwkThumbprint(key)

\* Step 4: aud = resourceServer, exp > now, iat <= now + skew.
accessTokenClaimsVerified(payload, o) ==
  /\ payload.aud = o.resourceServer
  /\ payload.exp > o.now
  /\ payload.iat <= o.now + ClockSkew

\* Verification of a DPoP proof bound to a request and an access token.
verifyDpopJwt(proof, request, now) ==
  /\ proof.header.typ = "dpop+jwt"
  /\ proof.header.alg \in {"ES256"}
  /\ proof.signedBy = calculateJwkThumbprint(proof.header.jwk)
  /\ proof.payload.htm = request.method
  /\ proof.payload.htu = htuOf(request.url)
  /\ proof.payload.iat >= now - ClockSkew
  /\ proof.payload.iat <= now + ClockSkew
  /\ proof.payload.ath = sha256Base64Url(request.accessToken)

\* Mutant: any bound token goes with any proof.
dpopBindingMatches_anyKey(payload, proof) ==
  payload.cnf # NoCnf

\* Step 5: cnf.jkt of the access token is the thumbprint of the proof's key.
dpopBindingMatches(payload, proof) ==
  /\ payload.cnf # NoCnf
  /\ payload.cnf.jkt = calculateJwkThumbprint(proof.header.jwk)

\* Mutant: no token counts as sender-constrained.
senderConstrained_never(payload) ==
  FALSE

\* An access token that carries cnf.jkt is sender-constrained.
senderConstrained(payload) ==
  payload.cnf # NoCnf

\* Steps 3 to 6, once the keys of the issuer are there.
verifyResourceRequest(o, jwks) ==
  LET jwt == decodeJwt(o.request.accessToken)
      proof == o.request.dpop
  IN  IF ~accessTokenJwtVerified(jwt, jwks)
        THEN Throw(verifyResourceRequestError("invalid_token"))
      ELSE IF ~accessTokenClaimsVerified(jwt.payload, o)
        THEN Throw(verifyResourceRequestError("invalid_token"))
      ELSE IF o.request.scheme = "DPoP"
        THEN IF proof = NoJwt \/ ~verifyDpopJwt(proof, o.request, o.now)
               THEN Throw(verifyResourceRequestError("invalid_dpop_proof"))
             ELSE IF ~dpopBindingMatches(jwt.payload, proof)
               THEN Throw(verifyResourceRequestError("invalid_dpop_proof"))
             ELSE Return([tokenPayload |-> jwt.payload, dpopJwk |-> proof.header.jwk])
      ELSE IF senderConstrained(jwt.payload)
        THEN Throw(verifyResourceRequestError("invalid_token"))
      ELSE Return([tokenPayload |-> jwt.payload, dpopJwk |-> undefinedJwk])

\* verifyResourceRequest up to the fetch of the issuer's keys.
CallVerifyResourceRequest ==
  /\ call = "none"
  /\ \E o \in VerifyResourceRequestOptionsSet :
       /\ call' = "Oauth2ResourceServer.verifyResourceRequest"
       /\ opts' = o
       /\ UNCHANGED <<oauth2Options, pkce, received, built, challenge>>
       /\ IF ~authenticationSchemeAllowed(o)
            THEN /\ result' = Throw(verifyResourceRequestError("invalid_request"))
                 /\ pc' = "done"
                 /\ UNCHANGED sent
          ELSE IF ~issuerKnown(o)
            THEN /\ result' = Throw(verifyResourceRequestError("invalid_token"))
                 /\ pc' = "done"
                 /\ UNCHANGED sent
          ELSE /\ sent' = Append(sent, [kind |-> "jwks", method |-> "GET",
                                        url |-> authorizationServerOf(o).jwks_uri])
               /\ pc' = "await_jwks"
               /\ UNCHANGED result

\* The issuer's keys arrive and the verification finishes.
JwksResponse ==
  /\ pc = "await_jwks"
  /\ \E response \in JwksResponseSet :
       /\ received' = Append(received, response)
       /\ result' = verifyResourceRequest(opts, response)
       /\ pc' = "done"
       /\ UNCHANGED <<call, opts, oauth2Options, pkce, sent, built, challenge>>

\* ------------------------------------ authorization code using a presentation

RetrieveAuthorizationCodeUsingPresentationOptionsSet ==
  [authSession : {s_session},
   presentationDuringIssuanceSession : {s_presentation_session},
   credentialOffer : CredentialOfferSet,
   issuerMetadata : IssuerMetadataSet]

\* The calls of retrieveAuthorizationCodeUsingPresentation a caller can make
\* now: any call on a fresh client, or the follow-up of an
\* initiateAuthorization that returned the PresentationDuringIssuance flow,
\* with the authSession it returned.
RetrieveAuthorizationCodeUsingPresentationCalls ==
  IF call = "none"
  THEN RetrieveAuthorizationCodeUsingPresentationOptionsSet
  ELSE IF /\ call = "Oid4vciClient.initiateAuthorization"
          /\ pc = "done"
          /\ result.kind = "return"
          /\ result.value.authorizationFlow = PresentationDuringIssuance
  THEN { [authSession |-> result.value.authSession,
          presentationDuringIssuanceSession |-> s_presentation_session,
          credentialOffer |-> opts.credentialOffer,
          issuerMetadata |-> opts.issuerMetadata] }
  ELSE {}

\* Mutant: the auth session is left out of the follow-up request.
presentationChallengeOptions_withoutSession(o, authorizationServerMetadata) ==
  [authorizationServerMetadata |-> authorizationServerMetadata,
   additionalRequestPayload |-> <<>>,
   clientId |-> undefined,
   pkceCodeVerifier |-> undefined,
   scope |-> undefined,
   authSession |-> undefined,
   presentationDuringIssuanceSession |-> o.presentationDuringIssuanceSession]

\* The options retrieveAuthorizationCodeUsingPresentation hands to
\* sendAuthorizationChallengeRequest.
presentationChallengeOptions(o, authorizationServerMetadata) ==
  [authorizationServerMetadata |-> authorizationServerMetadata,
   additionalRequestPayload |-> <<>>,
   clientId |-> undefined,
   pkceCodeVerifier |-> undefined,
   scope |-> undefined,
   authSession |-> o.authSession,
   presentationDuringIssuanceSession |-> o.presentationDuringIssuanceSession]

\* The responses to the follow-up challenge request.
PresentationChallengeResponseSet ==
  { r \in AuthorizationChallengeResponseSet :
      \/ r.errorResponse = NoErrorResponse
      \/ /\ r.errorResponse.request_uri = undefined
         /\ r.errorResponse.presentation = undefined }

\* A caller invokes Oid4vciClient.retrieveAuthorizationCodeUsingPresentation.
CallRetrieveAuthorizationCodeUsingPresentation ==
  \E o \in RetrieveAuthorizationCodeUsingPresentationCalls, random \in RandomSet :
    LET grants == o.credentialOffer.grants
        hasGrant == grants # NoGrant /\ grants.authorization_code # NoGrant
        authorizationServer ==
          determineAuthorizationServerForCredentialOffer(
            o.issuerMetadata, grants.authorization_code.authorization_server)
        authorizationServerMetadata ==
          getAuthorizationServerMetadataFromList(
            o.issuerMetadata.authorizationServers, authorizationServer.value)
    IN
    /\ call' = "Oid4vciClient.retrieveAuthorizationCodeUsingPresentation"
    /\ opts' = o
    /\ UNCHANGED <<pkce, received, built, challenge>>
    /\ IF ~hasGrant
       THEN /\ pc' = "done"
            /\ result' = Throw(Oauth2Error("missing authorization_code grant"))
            /\ UNCHANGED <<oauth2Options, sent>>
       ELSE IF authorizationServer.kind = "throw"
       THEN /\ pc' = "done"
            /\ result' = authorizationServer
            /\ UNCHANGED <<oauth2Options, sent>>
       ELSE IF authorizationServerMetadata.kind = "throw"
       THEN /\ pc' = "done"
            /\ result' = authorizationServerMetadata
            /\ UNCHANGED <<oauth2Options, sent>>
       ELSE LET inner == presentationChallengeOptions(o, authorizationServerMetadata.value) IN
            /\ oauth2Options' = inner
            /\ IF ~Truthy(inner.authorizationServerMetadata.authorization_challenge_endpoint)
               THEN /\ pc' = "done"
                    /\ result' = Throw(Oauth2Error("missing authorization_challenge_endpoint"))
                    /\ UNCHANGED sent
               ELSE /\ sent' = Append(sent, authorizationChallengeRequest(inner, random))
                    /\ pc' = "await_code"
                    /\ result' = NoResult

\* The follow-up challenge request resolves and
\* retrieveAuthorizationCodeUsingPresentation returns what it resolved to.
PresentationChallengeResponse ==
  /\ pc = "await_code"
  /\ \E response \in PresentationChallengeResponseSet :
       /\ received' = Append(received, response)
       /\ result' = authorizationChallengeOutcome(response)
       /\ pc' = "done"
       /\ UNCHANGED <<call, opts, oauth2Options, pkce, sent, built, challenge>>

\* ------------------------------------ authorization request url from an offer

\* Mutant: the caller's code verifier is not handed on.
createAuthorizationRequestUrlFromOfferOptions_withoutVerifier(o, authorizationServerMetadata) ==
  [authorizationServerMetadata |-> authorizationServerMetadata,
   clientId |-> o.clientId,
   additionalRequestPayload |->
     objectSpread(o.additionalRequestPayload,
                  << <<k_issuer_state,
                       o.credentialOffer.grants.authorization_code.issuer_state>> >>),
   redirectUri |-> o.redirectUri,
   scope |-> o.scope,
   pkceCodeVerifier |-> undefined]

\* The options createAuthorizationRequestUrlFromOffer hands to
\* Oauth2Client.createAuthorizationRequestUrl.
createAuthorizationRequestUrlFromOfferOptions(o, authorizationServerMetadata) ==
  [authorizationServerMetadata |-> authorizationServerMetadata,
   clientId |-> o.clientId,
   additionalRequestPayload |->
     objectSpread(o.additionalRequestPayload,
                  << <<k_issuer_state,
                       o.credentialOffer.grants.authorization_code.issuer_state>> >>),
   redirectUri |-> o.redirectUri,
   scope |-> o.scope,
   pkceCodeVerifier |-> o.pkceCodeVerifier]

\* A caller invokes Oid4vciClient.createAuthorizationRequestUrlFromOffer.
CallCreateAuthorizationRequestUrlFromOffer ==
  /\ call = "none"
  /\ \E o \in Oid4vciClientInitiateAuthorizationOptionsSet, random \in RandomSet :
       LET grants == o.credentialOffer.grants
           hasGrant == grants # NoGrant /\ grants.authorization_code # NoGrant
           authorizationServer ==
             determineAuthorizationServerForCredentialOffer(
               o.issuerMetadata, grants.authorization_code.authorization_server)
           authorizationServerMetadata ==
             getAuthorizationServerMetadataFromList(
               o.issuerMetadata.authorizationServers, authorizationServer.value)
       IN
       /\ call' = "Oid4vciClient.createAuthorizationRequestUrlFromOffer"
       /\ opts' = o
       /\ UNCHANGED <<pkce, received, challenge>>
       /\ IF ~hasGrant
          THEN /\ pc' = "done"
               /\ result' = Throw(Oauth2Error("missing authorization_code grant"))
               /\ UNCHANGED <<oauth2Options, sent, built>>
          ELSE IF authorizationServer.kind = "throw"
          THEN /\ pc' = "done"
               /\ result' = authorizationServer
               /\ UNCHANGED <<oauth2Options, sent, built>>
          ELSE IF authorizationServerMetadata.kind = "throw"
          THEN /\ pc' = "done"
               /\ result' = authorizationServerMetadata
               /\ UNCHANGED <<oauth2Options, sent, built>>
          ELSE LET inner == createAuthorizationRequestUrlFromOfferOptions(
                              o, authorizationServerMetadata.value) IN
               /\ oauth2Options' = inner
               /\ createAuthorizationRequestUrl(
                    "Oid4vciClient.createAuthorizationRequestUrlFromOffer", inner, random)

\* ------------------------------------------- access token request parsing

InvalidRequest == "invalid_request"
InvalidGrant == "invalid_grant"
InvalidDpopProof == "invalid_dpop_proof"

Oauth2ServerErrorResponseError(error) ==
  [type |-> "Oauth2ServerErrorResponseError", errorResponse |-> [error |-> error]]

\* A member value that is not a string.
notAString == <<"number">>

s_refresh_token == <<"r","e","f","r","e","s","h","_","t","o","k","e","n">>
s_special == <<"a"," ","+","%","&","=","?","b">>
s_two_parts == <<"e","y","J",".","x">>

\* object[key]: the value of the member, undefined when the object has none.
member(object, key) ==
  IF \E i \in DOMAIN object : object[i][1] = key
  THEN object[CHOOSE i \in DOMAIN object : object[i][1] = key][2]
  ELSE undefined

\* vAccessTokenRequest: every member of an access token request is a string
\* where it is present.
vAccessTokenRequest(object) ==
  \A i \in DOMAIN object : object[i][2] # notAString

\* extractDpopJwtFromHeaders: no DPoP header is valid and gives no jwt; a
\* DPoP header is valid when its value has the shape of a compact jwt.
extractDpopJwtFromHeaders(headers) ==
  IF headers.DPoP = undefined THEN [valid |-> TRUE, dpopJwt |-> undefined]
  ELSE IF ~isJwt(headers.DPoP) THEN [valid |-> FALSE, dpopJwt |-> undefined]
  ELSE [valid |-> TRUE, dpopJwt |-> headers.DPoP]

\* Mutant: an unsupported grant type is reported as an invalid request.
parsedGrant_unsupportedAsInvalidRequest(tokenRequest) ==
  IF member(tokenRequest, k_grant_type) = preAuthorizedCodeGrantIdentifier
  THEN IF ~Truthy(member(tokenRequest, k_pre_authorized_code))
       THEN Throw(Oauth2ServerErrorResponseError(InvalidRequest))
       ELSE Return([grantType |-> preAuthorizedCodeGrantIdentifier,
                    preAuthorizedCode |-> member(tokenRequest, k_pre_authorized_code),
                    txCode |-> member(tokenRequest, k_tx_code)])
  ELSE IF member(tokenRequest, k_grant_type) = authorizationCodeGrantIdentifier
  THEN IF ~Truthy(member(tokenRequest, k_code))
       THEN Throw(Oauth2ServerErrorResponseError(InvalidRequest))
       ELSE Return([grantType |-> authorizationCodeGrantIdentifier,
                    code |-> member(tokenRequest, k_code)])
  ELSE Throw(Oauth2ServerErrorResponseError(InvalidRequest))

\* Mutant: only a code that is undefined counts as missing.
parsedGrant_acceptsEmptyCode(tokenRequest) ==
  IF member(tokenRequest, k_grant_type) = preAuthorizedCodeGrantIdentifier
  THEN IF member(tokenRequest, k_pre_authorized_code) = undefined
       THEN Throw(Oauth2ServerErrorResponseError(InvalidRequest))
       ELSE Return([grantType |-> preAuthorizedCodeGrantIdentifier,
                    preAuthorizedCode |-> member(tokenRequest, k_pre_authorized_code),
                    txCode |-> member(tokenRequest, k_tx_code)])
  ELSE IF member(tokenRequest, k_grant_type) = authorizationCodeGrantIdentifier
  THEN IF member(tokenRequest, k_code) = undefined
       THEN Throw(Oauth2ServerErrorResponseError(InvalidRequest))
       ELSE Return([grantType |-> authorizationCodeGrantIdentifier,
                    code |-> member(tokenRequest, k_code)])
  ELSE Throw(Oauth2ServerErrorResponseError(InvalidGrant))

\* parseAccessTokenRequest, the dispatch on grant_type: the grant of the
\* request, or the error thrown for a missing code or another grant type.
parsedGrant(tokenRequest) ==
  IF member(tokenRequest, k_grant_type) = preAuthorizedCodeGrantIdentifier
  THEN IF ~Truthy(member(tokenRequest, k_pre_authorized_code))
       THEN Throw(Oauth2ServerErrorResponseError(InvalidRequest))
       ELSE Return([grantType |-> preAuthorizedCodeGrantIdentifier,
                    preAuthorizedCode |-> member(tokenRequest, k_pre_authorized_code),
                    txCode |-> member(tokenRequest, k_tx_code)])
  ELSE IF member(tokenRequest, k_grant_type) = authorizationCodeGrantIdentifier
  THEN IF ~Truthy(member(tokenRequest, k_code))
       THEN Throw(Oauth2ServerErrorResponseError(InvalidRequest))
       ELSE Return([grantType |-> authorizationCodeGrantIdentifier,
                    code |-> member(tokenRequest, k_code)])
  ELSE Throw(Oauth2ServerErrorResponseError(InvalidGrant))

\* Mutant: a DPoP header that is not a jwt is passed over.
parseAccessTokenRequest_withoutDpopCheck(options) ==
  LET tokenRequest == options.accessTokenRequest
      grant == parsedGrant(tokenRequest)
      extractedDpopJwt == extractDpopJwtFromHeaders(options.request.headers)
  IN  IF ~vAccessTokenRequest(tokenRequest)
      THEN Throw(Oauth2ServerErrorResponseError(InvalidRequest))
      ELSE IF grant.kind = "throw" THEN grant
      ELSE Return([accessTokenRequest |-> tokenRequest,
                   grant |-> grant.value,
                   dpopJwt |-> extractedDpopJwt.dpopJwt,
                   pkceCodeVerifier |-> member(tokenRequest, k_code_verifier)])

\* Mutant: the DPoP header is looked at before the grant.
parseAccessTokenRequest_dpopBeforeGrant(options) ==
  LET tokenRequest == options.accessTokenRequest
      grant == parsedGrant(tokenRequest)
      extractedDpopJwt == extractDpopJwtFromHeaders(options.request.headers)
  IN  IF ~vAccessTokenRequest(tokenRequest)
      THEN Throw(Oauth2ServerErrorResponseError(InvalidRequest))
      ELSE IF ~extractedDpopJwt.valid
      THEN Throw(Oauth2ServerErrorResponseError(InvalidDpopProof))
      ELSE IF grant.kind = "throw" THEN grant
      ELSE Return([accessTokenRequest |-> tokenRequest,
                   grant |-> grant.value,
                   dpopJwt |-> extractedDpopJwt.dpopJwt,
                   pkceCodeVerifier |-> member(tokenRequest, k_code_verifier)])

\* parseAccessTokenRequest: the schema, then the grant, then the DPoP header.
parseAccessTokenRequest(options) ==
  LET tokenRequest == options.accessTokenRequest
      grant == parsedGrant(tokenRequest)
      extractedDpopJwt == extractDpopJwtFromHeaders(options.request.headers)
  IN  IF ~vAccessTokenRequest(tokenRequest)
      THEN Throw(Oauth2ServerErrorResponseError(InvalidRequest))
      ELSE IF grant.kind = "throw" THEN grant
      ELSE IF ~extractedDpopJwt.valid
      THEN Throw(Oauth2ServerErrorResponseError(InvalidDpopProof))
      ELSE Return([accessTokenRequest |-> tokenRequest,
                   grant |-> grant.value,
                   dpopJwt |-> extractedDpopJwt.dpopJwt,
                   pkceCodeVerifier |-> member(tokenRequest, k_code_verifier)])

\* The DPoP header values of an access token request: none, text that is
\* not a jwt, a proof for the token endpoint, and that proof with a
\* signature of another key.
TokenRequestDpopHeaderSet ==
  LET proof == createDpopJwt([method |-> "jwk", alg |-> "ES256", publicJwk |-> jwkA],
                             "POST", s_token, undefined, undefined, s_random1, 1000)
  IN  { undefined, s_code, s_two_parts, jwtCompact(proof),
        jwtCompact([proof EXCEPT !.signedBy = calculateJwkThumbprint(jwkB)]) }

\* The objects handed to parseAccessTokenRequest as the decoded body.
AccessTokenRequestObjectSet ==
  { << <<k_grant_type, grant_type>>,
       <<k_pre_authorized_code, preAuthorizedCode>>,
       <<k_tx_code, tx_code>>,
       <<k_code, code>>,
       <<k_code_verifier, code_verifier>> >> :
      grant_type \in {undefined, notAString, s_refresh_token,
                      preAuthorizedCodeGrantIdentifier,
                      authorizationCodeGrantIdentifier},
      preAuthorizedCode \in {undefined, notAString, s_empty, s_code},
      tx_code \in {undefined, s_tx_code},
      code \in {undefined, notAString, s_empty, s_code},
      code_verifier \in {undefined, s_verifier} }

\* The access token requests a client form-encodes.
FormAccessTokenRequestSet ==
  { << <<k_pre_authorized_code, preAuthorizedCode>>,
       <<k_tx_code, tx_code>>,
       <<k_code, code>>,
       <<k_redirect_uri, redirect_uri>>,
       <<k_code_verifier, code_verifier>>,
       <<k_grant_type, grant_type>> >> :
      preAuthorizedCode \in {undefined, s_empty, s_special},
      tx_code \in {undefined, s_tx_code},
      code \in {undefined, s_empty, s_special},
      redirect_uri \in {undefined, s_redirect},
      code_verifier \in {undefined, s_verifier},
      grant_type \in {undefined, s_refresh_token,
                      preAuthorizedCodeGrantIdentifier,
                      authorizationCodeGrantIdentifier} }

\* The first position of a character in a text, 0 when it has none.
indexOf(text, c) ==
  IF \E i \in DOMAIN text : text[i] = c
  THEN CHOOSE i \in DOMAIN text : text[i] = c /\ \A j \in 1..(i - 1) : text[j] # c
  ELSE 0

\* The m-th position of a set of positions.
nthPosition(positions, m) ==
  CHOOSE c \in positions : Cardinality({ d \in positions : d <= c }) = m

\* The values of a function on 1..n, as a sequence.
listOf(f) == f \o <<>>

\* text.split(c): the parts between the occurrences of c.
split(text, c) ==
  LET at == { i \in DOMAIN text : text[i] = c }
      n == Cardinality(at) + 1
  IN  listOf([m \in 1..n |->
                SubSeq(text,
                       IF m = 1 THEN 1 ELSE nthPosition(at, m - 1) + 1,
                       IF m = n THEN Len(text) ELSE nthPosition(at, m) - 1)])

\* The character of a percent-encoded byte.
percentDecodeChar(hex) ==
  CASE hex = <<"3","A">> -> ":"
    [] hex = <<"2","F">> -> "/"
    [] hex = <<"3","F">> -> "?"
    [] hex = <<"3","D">> -> "="
    [] hex = <<"2","6">> -> "&"
    [] hex = <<"2","5">> -> "%"
    [] hex = <<"2","B">> -> "+"
    [] hex = <<"7","B">> -> "{"
    [] hex = <<"7","D">> -> "}"
    [] hex = <<"5","B">> -> "["
    [] hex = <<"5","D">> -> "]"
    [] hex = <<"2","2">> -> "\""
    [] hex = <<"5","C">> -> "\\"
    [] hex = <<"2","C">> -> ","
    [] hex = <<"2","3">> -> "#"
    [] OTHER -> "?"

\* A position of a text before which it can be cut without cutting a
\* percent-encoded byte: neither of the two characters before it is "%".
\* 0 when the text has no such position in its second half.
decodeCut(s) ==
  LET cuts == { p \in (Len(s) \div 2)..Len(s) :
                  p > 2 /\ s[p - 1] # "%" /\ s[p - 2] # "%" } IN
  IF cuts = {} THEN 0
  ELSE CHOOSE p \in cuts : \A q \in cuts : p <= q

RECURSIVE urldecode(_)
\* application/x-www-form-urlencoded decoding of a name or a value, from
\* left to right: a text without "+" and "%" is itself, any other text is
\* decoded in two parts.
urldecode(s) ==
  IF \A k \in DOMAIN s : s[k] \notin {"+", "%"} THEN s
  ELSE IF decodeCut(s) # 0
       THEN urldecode(SubSeq(s, 1, decodeCut(s) - 1))
            \o urldecode(SubSeq(s, decodeCut(s), Len(s)))
  ELSE IF Head(s) = "+" THEN <<" ">> \o urldecode(Tail(s))
  ELSE IF Head(s) = "%" /\ Len(s) >= 3
       THEN <<percentDecodeChar(SubSeq(s, 2, 3))>> \o urldecode(SubSeq(s, 4, Len(s)))
  ELSE <<Head(s)>> \o urldecode(Tail(s))

\* The object of name=value parts: an empty part is skipped, a name keeps
\* the place of its first part and has the value of its last.
formEntries(parts) ==
  LET entryOf(part) ==
        LET i == indexOf(part, "=") IN
        IF i = 0 THEN <<urldecode(part), <<>> >>
        ELSE <<urldecode(SubSeq(part, 1, i - 1)),
               urldecode(SubSeq(part, i + 1, Len(part)))>>
      present == { k \in DOMAIN parts : parts[k] # <<>> }
      entries == listOf([k \in DOMAIN parts |-> entryOf(parts[k])])
      firsts == { k \in present :
                    \A j \in present : j < k => entries[j][1] # entries[k][1] }
      lastOf(f) == CHOOSE j \in present :
                     /\ entries[j][1] = entries[f][1]
                     /\ \A h \in present : entries[h][1] = entries[f][1] => h <= j
  IN  listOf([m \in 1..Cardinality(firsts) |->
                <<entries[nthPosition(firsts, m)][1],
                  entries[lastOf(nthPosition(firsts, m))][2]>>])

\* parseXwwwFormUrlEncoded: the object of a form-encoded body.
parseXwwwFormUrlEncoded(text) == formEntries(split(text, "&"))

\* Oauth2AuthorizationServer.parseAccessTokenRequest on a decoded body.
CallParseAccessTokenRequest ==
  /\ call = "none"
  /\ \E tokenRequest \in AccessTokenRequestObjectSet,
        dpop \in TokenRequestDpopHeaderSet :
       LET options == [accessTokenRequest |-> tokenRequest,
                       request |-> [method |-> "POST", url |-> s_token,
                                    headers |-> [DPoP |-> dpop]]] IN
       /\ call' = "Oauth2AuthorizationServer.parseAccessTokenRequest"
       /\ opts' = options
       /\ result' = parseAccessTokenRequest(options)
       /\ pc' = "done"
       /\ UNCHANGED <<oauth2Options, pkce, sent, received, built, challenge>>

\* The token endpoint of a server: a form-encoded access token request
\* arrives, its body is decoded and handed to parseAccessTokenRequest.
CallParseFormEncodedAccessTokenRequest ==
  /\ call = "none"
  /\ \E x \in FormAccessTokenRequestSet, dpop \in TokenRequestDpopHeaderSet :
       /\ call' = "Oauth2AuthorizationServer.parseAccessTokenRequest"
       /\ received' = << [kind |-> "access_token_request",
                          accessTokenRequest |-> x,
                          body |-> URLSearchParamsToString(objectToQueryParams(x))] >>
       /\ opts' = [accessTokenRequest |-> parseXwwwFormUrlEncoded(received'[1].body),
                   request |-> [method |-> "POST", url |-> s_token,
                                headers |-> [DPoP |-> dpop]]]
       /\ result' = parseAccessTokenRequest(opts')
       /\ pc' = "done"
       /\ UNCHANGED <<oauth2Options, pkce, sent, built, challenge>>

\* -------------------------------------------- credential offer validation

\* Members whose values are booleans, numbers or literals are TLA+ strings
\* of the JSON text, "undefined" for a member the object does not have.

s_pid == <<"p","i","d">>
s_mdl == <<"m","d","l">>
s_extra == <<"e","x","t","r","a">>

Ok(output) == [success |-> TRUE, output |-> output]
Issues == [success |-> FALSE]

ValidationError == [type |-> "ValidationError"]

\* vCredentialIssuerIdentifier: a string that is an https url.
vCredentialIssuerIdentifier(value) ==
  /\ value # undefined
  /\ Len(value) > 8
  /\ SubSeq(value, 1, 8) = <<"h","t","t","p","s",":","/","/">>

\* v.array(v.string())
vArrayOfString(value) ==
  /\ value # undefinedArray
  /\ \A i \in DOMAIN value : value[i] # notAString

MaxDescriptionLength == 300

\* The tx_code entry of vCredentialOfferGrants: input_mode is numeric or
\* text and numeric by default, length an integer, description a short text.
vTxCode(tx_code) ==
  IF tx_code = NoTxCode THEN Ok(NoTxCode)
  ELSE IF tx_code.input_mode \notin {"undefined", "numeric", "text"} THEN Issues
  ELSE IF tx_code.length = "4.5" THEN Issues
  ELSE IF tx_code.description # undefined
          /\ Len(tx_code.description) > MaxDescriptionLength THEN Issues
  ELSE Ok([tx_code EXCEPT !.input_mode =
             IF tx_code.input_mode = "undefined" THEN "numeric"
             ELSE tx_code.input_mode])

\* vCredentialOfferGrants: both grants optional; the pre-authorized code
\* grant needs its code; members the schema does not name are kept.
vCredentialOfferGrants(grants) ==
  IF grants.pre_authorized_code = NoGrant THEN Ok(grants)
  ELSE IF grants.pre_authorized_code.pre_authorized_code = undefined THEN Issues
  ELSE LET tx_code == vTxCode(grants.pre_authorized_code.tx_code) IN
       IF ~tx_code.success THEN Issues
       ELSE Ok([grants EXCEPT !.pre_authorized_code.tx_code = tx_code.output])

\* vCredentialOfferObjectDraft14
vCredentialOfferObjectDraft14(offer) ==
  IF ~vCredentialIssuerIdentifier(offer.credential_issuer) THEN Issues
  ELSE IF ~vArrayOfString(offer.credential_configuration_ids) THEN Issues
  ELSE IF offer.grants = NoGrants THEN Ok(offer)
  ELSE LET grants == vCredentialOfferGrants(offer.grants) IN
       IF ~grants.success THEN Issues
       ELSE Ok([offer EXCEPT !.grants = grants.output])

\* The draft 11 object schema at the head of vCredentialOfferObjectDraft11To14.
vCredentialOfferObjectDraft11(offer) ==
  IF ~vCredentialIssuerIdentifier(offer.credential_issuer) THEN Issues
  ELSE IF ~vArrayOfString(offer.credentials) THEN Issues
  ELSE IF offer.grants = NoGrants THEN Ok(offer)
  ELSE IF offer.grants.pre_authorized_code = NoGrant THEN Ok(offer)
  ELSE IF offer.grants.pre_authorized_code.pre_authorized_code = undefined THEN Issues
  ELSE IF offer.grants.pre_authorized_code.user_pin_required
            \notin {"undefined", "true", "false"} THEN Issues
  ELSE Ok(offer)

\* Mutant: a tx_code is made whenever the offer has user_pin_required.
draft11To14_txCodeForAnyUserPin(offer) ==
  LET v14 == [offer EXCEPT !.credentials = undefinedArray,
                           !.credential_configuration_ids = offer.credentials]
  IN  IF offer.grants = NoGrants THEN v14
      ELSE IF offer.grants.pre_authorized_code = NoGrant THEN v14
      ELSE LET user_pin_required == offer.grants.pre_authorized_code.user_pin_required
               restGrants == [offer.grants.pre_authorized_code
                                EXCEPT !.user_pin_required = "undefined"]
           IN  [v14 EXCEPT !.grants.pre_authorized_code =
                  IF user_pin_required # "undefined"
                  THEN [restGrants EXCEPT !.tx_code =
                          [input_mode |-> "text", length |-> "undefined",
                           description |-> undefined]]
                  ELSE restGrants]

\* The transform of vCredentialOfferObjectDraft11To14: credentials becomes
\* credential_configuration_ids, user_pin_required is taken out of the
\* pre-authorized code grant and makes the tx_code when it is true.
draft11To14(offer) ==
  LET v14 == [offer EXCEPT !.credentials = undefinedArray,
                           !.credential_configuration_ids = offer.credentials]
  IN  IF offer.grants = NoGrants THEN v14
      ELSE IF offer.grants.pre_authorized_code = NoGrant THEN v14
      ELSE LET user_pin_required == offer.grants.pre_authorized_code.user_pin_required
               restGrants == [offer.grants.pre_authorized_code
                                EXCEPT !.user_pin_required = "undefined"]
           IN  [v14 EXCEPT !.grants.pre_authorized_code =
                  IF user_pin_required = "true"
                  THEN [restGrants EXCEPT !.tx_code =
                          [input_mode |-> "text", length |-> "undefined",
                           description |-> undefined]]
                  ELSE restGrants]

\* vCredentialOfferObjectDraft11To14: the draft 11 schema, the transform,
\* then the draft 14 schema.
vCredentialOfferObjectDraft11To14(offer) ==
  LET draft11 == vCredentialOfferObjectDraft11(offer) IN
  IF ~draft11.success THEN Issues
  ELSE vCredentialOfferObjectDraft14(draft11To14(draft11.output))

\* Mutant: the union has the draft 11 schema only.
vCredentialOfferObject_draft11Only(offer) ==
  vCredentialOfferObjectDraft11To14(offer)

\* vCredentialOfferObject: draft 14 first, then draft 11 with the transform.
vCredentialOfferObject(offer) ==
  LET draft14 == vCredentialOfferObjectDraft14(offer) IN
  IF draft14.success THEN draft14
  ELSE vCredentialOfferObjectDraft11To14(offer)

\* parseWithErrorHandling(vCredentialOfferObject, data)
parseWithErrorHandling(data) ==
  LET parseResult == vCredentialOfferObject(data) IN
  IF ~parseResult.success THEN Throw(ValidationError)
  ELSE Return(parseResult.output)

TxCodeSet ==
  { NoTxCode }
  \cup { [input_mode |-> mode, length |-> "undefined", description |-> undefined]
           : mode \in {"undefined", "numeric", "text", "qr"} }
  \cup { [input_mode |-> "numeric", length |-> len, description |-> s_extra]
           : len \in {"4", "4.5"} }

CredentialOfferGrantsSet ==
  { NoGrants }
  \cup { [authorization_code |-> authorization_code,
          pre_authorized_code |-> pre_authorized_code] :
           authorization_code \in
             { NoGrant, [issuer_state |-> s_state, authorization_server |-> undefined] },
           pre_authorized_code \in
             { NoGrant }
             \cup [pre_authorized_code : {undefined, s_code},
                   user_pin_required : {"undefined", "true", "false", "1"},
                   tx_code : TxCodeSet,
                   authorization_server : {undefined, s_https_as}] }

\* The objects a credential offer may decode to: draft 14 offers, draft 11
\* offers, and objects that are neither.
CredentialOfferObjectSet ==
  [credential_issuer : {undefined, s_https_iss, s_redirect},
   credentials : {undefinedArray, <<s_pid, s_mdl>>, <<notAString>>},
   credential_configuration_ids : {undefinedArray, <<s_mdl, s_pid>>},
   grants : CredentialOfferGrantsSet,
   extra : {undefined, s_extra}]

\* A credential offer is validated with the credential offer schema.
CallValidateCredentialOffer ==
  /\ call = "none"
  /\ \E data \in CredentialOfferObjectSet :
       /\ call' = "parseWithErrorHandling(vCredentialOfferObject)"
       /\ opts' = [data |-> data]
       /\ result' = parseWithErrorHandling(data)
       /\ pc' = "done"
       /\ UNCHANGED <<oauth2Options, pkce, sent, received, built, challenge>>

\* The offer a validation returned is validated again: oauth2Options has
\* the offer handed to the second validation.
CallValidateCredentialOfferAgain ==
  /\ call = "parseWithErrorHandling(vCredentialOfferObject)"
  /\ pc = "done"
  /\ result.kind = "return"
  /\ oauth2Options = NoOptions
  /\ oauth2Options' = [data |-> result.value]
  /\ result' = parseWithErrorHandling(result.value)
  /\ UNCHANGED <<call, pc, opts, pkce, sent, received, built, challenge>>

\* ------------------------------------------------------------------- JSON

k_credential_offer == <<"c","r","e","d","e","n","t","i","a","l","_","o","f","f","e","r">>
k_credential_offer_uri == <<"c","r","e","d","e","n","t","i","a","l","_","o","f","f","e","r","_","u","r","i">>
k_credential_issuer == <<"c","r","e","d","e","n","t","i","a","l","_","i","s","s","u","e","r">>
k_credentials == <<"c","r","e","d","e","n","t","i","a","l","s">>
k_credential_configuration_ids == <<"c","r","e","d","e","n","t","i","a","l","_","c","o","n","f","i","g","u","r","a","t","i","o","n","_","i","d","s">>
k_grants == <<"g","r","a","n","t","s">>
k_extra == <<"e","x","t","r","a">>
k_authorization_server == <<"a","u","t","h","o","r","i","z","a","t","i","o","n","_","s","e","r","v","e","r">>
k_user_pin_required == <<"u","s","e","r","_","p","i","n","_","r","e","q","u","i","r","e","d">>
k_input_mode == <<"i","n","p","u","t","_","m","o","d","e">>
k_length == <<"l","e","n","g","t","h">>
k_description == <<"d","e","s","c","r","i","p","t","i","o","n">>

\* The JSON text of a member value that is kept as a TLA+ string, and back.
LiteralSet == {"true", "false", "1", "4", "4.5", "numeric", "text", "qr"}
literalText(l) ==
  CASE l = "true" -> <<"t","r","u","e">>
    [] l = "false" -> <<"f","a","l","s","e">>
    [] l = "1" -> <<"1">>
    [] l = "4" -> <<"4">>
    [] l = "4.5" -> <<"4",".","5">>
    [] l = "numeric" -> <<"n","u","m","e","r","i","c">>
    [] l = "text" -> <<"t","e","x","t">>
    [] l = "qr" -> <<"q","r">>
literalOf(chars) ==
  IF \E l \in LiteralSet : literalText(l) = chars
  THEN CHOOSE l \in LiteralSet : literalText(l) = chars
  ELSE "other"

RECURSIVE jsonEscape(_)
\* The characters of a string inside a JSON string: quote and backslash
\* are escaped.
jsonEscape(s) ==
  IF \A k \in DOMAIN s : s[k] \notin {"\"", "\\"} THEN s
  ELSE IF Len(s) = 1 THEN <<"\\", s[1]>>
  ELSE jsonEscape(SubSeq(s, 1, Len(s) \div 2))
       \o jsonEscape(SubSeq(s, Len(s) \div 2 + 1, Len(s)))

jsonString(s) == <<"\"">> \o jsonEscape(s) \o <<"\"">>

RECURSIVE jsonJoin(_)
\* The present texts of a list, separated by commas; an absent text is <<>>.
jsonJoin(texts) ==
  IF texts = <<>> THEN <<>>
  ELSE LET rest == jsonJoin(Tail(texts)) IN
       IF Head(texts) = <<>> THEN rest
       ELSE IF rest = <<>> THEN Head(texts)
       ELSE Head(texts) \o <<",">> \o rest

\* A member of an object in JSON, <<>> for a member without a value.
jsonEntry(key, present, text) ==
  IF present THEN jsonString(key) \o <<":">> \o text ELSE <<>>

jsonObject(entries) == <<"{">> \o jsonJoin(entries) \o <<"}">>

jsonArrayOfString(list) ==
  <<"[">>
  \o jsonJoin([i \in DOMAIN list |->
                 IF list[i] = notAString THEN <<"1">> ELSE jsonString(list[i])])
  \o <<"]">>

jsonStringEntry(key, value) == jsonEntry(key, value # undefined, jsonString(value))

\* JSON.stringify of a credential offer object: members without a value
\* are left out.  The texts of the inner objects are built first, the
\* innermost first; the text of an object the offer does not have is <<>>.
JSONstringify(offer) ==
  LET authorizationCode ==
        IF offer.grants = NoGrants THEN NoGrant ELSE offer.grants.authorization_code
      preAuthorizedCode ==
        IF offer.grants = NoGrants THEN NoGrant ELSE offer.grants.pre_authorized_code
      tx_code ==
        IF preAuthorizedCode = NoGrant THEN NoTxCode ELSE preAuthorizedCode.tx_code
      txCodeText ==
        IF tx_code = NoTxCode THEN <<>>
        ELSE jsonObject(<<
          jsonEntry(k_input_mode, tx_code.input_mode # "undefined",
                    jsonString(literalText(tx_code.input_mode))),
          jsonEntry(k_length, tx_code.length # "undefined", literalText(tx_code.length)),
          jsonStringEntry(k_description, tx_code.description) >>)
      preAuthorizedCodeText ==
        IF preAuthorizedCode = NoGrant THEN <<>>
        ELSE jsonObject(<<
          jsonStringEntry(k_pre_authorized_code, preAuthorizedCode.pre_authorized_code),
          jsonEntry(k_user_pin_required, preAuthorizedCode.user_pin_required # "undefined",
                    literalText(preAuthorizedCode.user_pin_required)),
          jsonEntry(k_tx_code, tx_code # NoTxCode, txCodeText),
          jsonStringEntry(k_authorization_server, preAuthorizedCode.authorization_server) >>)
      authorizationCodeText ==
        IF authorizationCode = NoGrant THEN <<>>
        ELSE jsonObject(<<
          jsonStringEntry(k_issuer_state, authorizationCode.issuer_state),
          jsonStringEntry(k_authorization_server, authorizationCode.authorization_server) >>)
      grantsText ==
        IF offer.grants = NoGrants THEN <<>>
        ELSE jsonObject(<<
          jsonEntry(authorizationCodeGrantIdentifier, authorizationCode # NoGrant,
                    authorizationCodeText),
          jsonEntry(preAuthorizedCodeGrantIdentifier, preAuthorizedCode # NoGrant,
                    preAuthorizedCodeText) >>)
      inner == <<txCodeText, preAuthorizedCodeText, authorizationCodeText, grantsText>>
  IN  jsonObject(<<
        jsonStringEntry(k_credential_issuer, offer.credential_issuer),
        jsonEntry(k_credential_configuration_ids,
                  offer.credential_configuration_ids # undefinedArray,
                  jsonArrayOfString(offer.credential_configuration_ids)),
        jsonEntry(k_credentials, offer.credentials # undefinedArray,
                  jsonArrayOfString(offer.credentials)),
        jsonEntry(k_grants, offer.grants # NoGrants, inner[4]),
        jsonStringEntry(k_extra, offer.extra) >>)

\* A parsed JSON value: t is "o" for an object (v its entries in order),
\* "a" for an array, "s" for a string, "l" for any other literal and "u"
\* for no value.
NoJson == [t |-> "u"]

\* Whether the character at position k of a JSON text is escaped: an odd
\* number of backslashes stands right before it.
jsonEscaped(text, k) ==
  LET q == CHOOSE p \in 0..(k - 1) :
             /\ p = 0 \/ text[p] # "\\"
             /\ \A r \in (p + 1)..(k - 1) : text[r] = "\\"
  IN  (k - 1 - q) % 2 = 1

\* The characters of the inside of a JSON string: a backslash stands for
\* the character after it.  A text without a backslash is itself; a long
\* text is taken in two parts, cut after a character that is no backslash.
jsonUnescapeCut(s) ==
  LET cuts == { p \in (Len(s) \div 2)..Len(s) : p > 1 /\ s[p - 1] # "\\" } IN
  IF Len(s) <= 2 \/ cuts = {} THEN 0
  ELSE CHOOSE p \in cuts : \A q \in cuts : p <= q

RECURSIVE jsonUnescape(_)
jsonUnescape(s) ==
  IF \A k \in DOMAIN s : s[k] # "\\" THEN s
  ELSE IF jsonUnescapeCut(s) # 0
       THEN jsonUnescape(SubSeq(s, 1, jsonUnescapeCut(s) - 1))
            \o jsonUnescape(SubSeq(s, jsonUnescapeCut(s), Len(s)))
  ELSE IF Head(s) = "\\" /\ Len(s) >= 2
       THEN <<s[2]>> \o jsonUnescape(SubSeq(s, 3, Len(s)))
  ELSE <<Head(s)>> \o jsonUnescape(Tail(s))

\* The structure of a JSON text: the quotes that open or close a string,
\* and the brackets and commas outside strings.
jsonScan(text) ==
  LET quotes == { k \in DOMAIN text : text[k] = "\"" /\ ~jsonEscaped(text, k) }
      outside(k) == Cardinality({ q \in quotes : q < k }) % 2 = 0
  IN  [quotes |-> quotes,
       opens |-> { k \in DOMAIN text : text[k] \in {"{", "["} /\ outside(k) },
       closes |-> { k \in DOMAIN text : text[k] \in {"}", "]"} /\ outside(k) },
       commas |-> { k \in DOMAIN text : text[k] = "," /\ outside(k) }]

\* The number of objects and arrays that are open before position k.
jsonDepth(scan, k) ==
  Cardinality({ p \in scan.opens : p < k }) - Cardinality({ p \in scan.closes : p < k })

RECURSIVE jsonValue(_, _, _, _)
\* The JSON value that spans the positions i to j of a text: the members
\* of an object and the elements of an array are separated by the commas
\* one level below it.
jsonValue(text, scan, i, j) ==
  LET commas == { c \in scan.commas :
                    i < c /\ c < j /\ jsonDepth(scan, c) = jsonDepth(scan, i) + 1 }
      n == Cardinality(commas) + 1
      from(a) == IF a = 1 THEN i + 1 ELSE nthPosition(commas, a - 1) + 1
      to(b) == IF b = n THEN j - 1 ELSE nthPosition(commas, b) - 1
      keyEnd(c) == CHOOSE q \in scan.quotes :
                     q > from(c) /\ \A p \in scan.quotes : p > from(c) => q <= p
  IN  IF text[i] = "{"
      THEN [t |-> "o",
            v |-> IF j = i + 1 THEN <<>>
                  ELSE listOf([m \in 1..n |->
                          << jsonUnescape(SubSeq(text, from(m) + 1, keyEnd(m) - 1)),
                             jsonValue(text, scan, keyEnd(m) + 2, to(m)) >>])]
      ELSE IF text[i] = "["
      THEN [t |-> "a",
            v |-> IF j = i + 1 THEN <<>>
                  ELSE listOf([m \in 1..n |-> jsonValue(text, scan, from(m), to(m))])]
      ELSE IF text[i] = "\""
      THEN [t |-> "s", v |-> jsonUnescape(SubSeq(text, i + 1, j - 1))]
      ELSE [t |-> "l", v |-> SubSeq(text, i, j)]

\* Whether JSON.parse takes the text: the texts of the model are JSON
\* objects or start with another character.
isJson(text) == text # <<>> /\ text[1] = "{"

JSONparse(text) == jsonValue(text, jsonScan(text), 1, Len(text))

\* json[key], NoJson when the value is no object or has no such member.
jsonMember(json, key) ==
  IF json.t = "o" /\ \E i \in DOMAIN json.v : json.v[i][1] = key
  THEN json.v[CHOOSE i \in DOMAIN json.v : json.v[i][1] = key][2]
  ELSE NoJson

stringOf(json) ==
  IF json.t = "u" THEN undefined ELSE IF json.t = "s" THEN json.v ELSE notAString

arrayOfStringOf(json) ==
  IF json.t = "a" THEN [i \in DOMAIN json.v |-> stringOf(json.v[i])]
  ELSE undefinedArray

\* The credential offer object of a parsed JSON object.
credentialOfferObjectOf(json) ==
  LET txCode(jt) ==
        IF jt.t = "u" THEN NoTxCode
        ELSE [input_mode |->
                IF jsonMember(jt, k_input_mode).t = "u" THEN "undefined"
                ELSE literalOf(jsonMember(jt, k_input_mode).v),
              length |->
                IF jsonMember(jt, k_length).t = "u" THEN "undefined"
                ELSE literalOf(jsonMember(jt, k_length).v),
              description |-> stringOf(jsonMember(jt, k_description))]
      preAuthorizedCode(jp) ==
        IF jp.t = "u" THEN NoGrant
        ELSE [pre_authorized_code |-> stringOf(jsonMember(jp, k_pre_authorized_code)),
              user_pin_required |->
                IF jsonMember(jp, k_user_pin_required).t = "u" THEN "undefined"
                ELSE literalOf(jsonMember(jp, k_user_pin_required).v),
              tx_code |-> txCode(jsonMember(jp, k_tx_code)),
              authorization_server |-> stringOf(jsonMember(jp, k_authorization_server))]
      authorizationCode(ja) ==
        IF ja.t = "u" THEN NoGrant
        ELSE [issuer_state |-> stringOf(jsonMember(ja, k_issuer_state)),
              authorization_server |-> stringOf(jsonMember(ja, k_authorization_server))]
      grants(jg) ==
        IF jg.t = "u" THEN NoGrants
        ELSE [authorization_code |->
                authorizationCode(jsonMember(jg, authorizationCodeGrantIdentifier)),
              pre_authorized_code |->
                preAuthorizedCode(jsonMember(jg, preAuthorizedCodeGrantIdentifier))]
  IN  [credential_issuer |-> stringOf(jsonMember(json, k_credential_issuer)),
       credentials |-> arrayOfStringOf(jsonMember(json, k_credentials)),
       credential_configuration_ids |->
         arrayOfStringOf(jsonMember(json, k_credential_configuration_ids)),
       grants |-> grants(jsonMember(json, k_grants)),
       extra |-> stringOf(jsonMember(json, k_extra))]

\* -------------------------------------------- credential offer resolution

s_openid_credential_offer == <<"o","p","e","n","i","d","-","c","r","e","d","e","n","t","i","a","l","-","o","f","f","e","r">>
s_haip == <<"h","a","i","p">>
s_offer_uri == s_https_iss \o <<"/","o","?","i","d","=","1">>
s_quoted == <<"a","\"","b","\\","c"," ","&","d">>

SchemeSet == {s_openid_credential_offer, s_haip}

InvalidCredentialOfferError == [type |-> "Oid4vcError", error |-> "invalid_credential_offer"]
JsonParseError == [type |-> "JsonParseError"]
TypeError == [type |-> "TypeError"]

\* <scheme>://?credential_offer=<json>
buildCredentialOfferUrl(offer, scheme) ==
  scheme \o <<":","/","/","?">>
  \o URLSearchParamsToString(
       objectToQueryParams(<< <<k_credential_offer, JSONstringify(offer)>> >>))

\* <scheme>://?credential_offer_uri=<https-url>
buildCredentialOfferUriUrl(uri, scheme) ==
  scheme \o <<":","/","/","?">>
  \o URLSearchParamsToString(objectToQueryParams(<< <<k_credential_offer_uri, uri>> >>))

\* Mutant: the parameters are read from the whole url.
getQueryParams_ofWholeUrl(url) ==
  IF indexOf(url, ":") < 2 THEN Throw(TypeError)
  ELSE Return(parseXwwwFormUrlEncoded(url))

\* getQueryParams: new URL(url) needs a scheme; the parameters are those of
\* the search part, the last value of a repeated name.
getQueryParams(url) ==
  IF indexOf(url, ":") < 2 THEN Throw(TypeError)
  ELSE LET q == indexOf(url, "?")
           h == indexOf(url, "#")
           search == IF q = 0 \/ (h # 0 /\ h < q) THEN <<>>
                     ELSE SubSeq(url, q + 1, IF h = 0 THEN Len(url) ELSE h - 1)
       IN  Return(parseXwwwFormUrlEncoded(search))

\* The offer of a JSON text: parsed, then validated with the credential
\* offer schema.
credentialOfferOutcome(text) ==
  IF ~isJson(text) THEN Throw(JsonParseError)
  ELSE LET json == JSONparse(text) IN
       IF json.t # "o" THEN Throw(ValidationError)
       ELSE parseWithErrorHandling(credentialOfferObjectOf(json))

\* Mutant: an offer with both parameters is resolved from credential_offer_uri.
resolveCredentialOfferStep_uriFirst(credentialOffer) ==
  LET parsedQueryParams == getQueryParams(credentialOffer) IN
  IF parsedQueryParams.kind = "throw" THEN [step |-> "done", outcome |-> parsedQueryParams]
  ELSE LET credential_offer == member(parsedQueryParams.value, k_credential_offer)
           credential_offer_uri == member(parsedQueryParams.value, k_credential_offer_uri)
       IN  IF credential_offer_uri # undefined
           THEN [step |-> "fetch", url |-> credential_offer_uri]
           ELSE IF credential_offer # undefined
           THEN [step |-> "done", outcome |-> credentialOfferOutcome(credential_offer)]
           ELSE [step |-> "done", outcome |-> Throw(InvalidCredentialOfferError)]

\* resolveCredentialOffer up to its fetch: exactly one of credential_offer
\* and credential_offer_uri must be there; an inline offer is parsed and
\* validated, an offer by reference is fetched.
resolveCredentialOfferStep(credentialOffer) ==
  LET parsedQueryParams == getQueryParams(credentialOffer) IN
  IF parsedQueryParams.kind = "throw" THEN [step |-> "done", outcome |-> parsedQueryParams]
  ELSE LET credential_offer == member(parsedQueryParams.value, k_credential_offer)
           credential_offer_uri == member(parsedQueryParams.value, k_credential_offer_uri)
       IN  IF (credential_offer # undefined) = (credential_offer_uri # undefined)
           THEN [step |-> "done", outcome |-> Throw(InvalidCredentialOfferError)]
           ELSE IF credential_offer_uri # undefined
           THEN [step |-> "fetch", url |-> credential_offer_uri]
           ELSE [step |-> "done", outcome |-> credentialOfferOutcome(credential_offer)]

\* The offers an issuer hands out, by value or by reference.
PublishedOfferSet ==
  { [credential_issuer |-> issuer,
     credentials |-> ids[1],
     credential_configuration_ids |-> ids[2],
     grants |-> grants,
     extra |-> extra] :
      issuer \in {s_https_iss},
      ids \in { <<undefinedArray, <<s_mdl, s_pid>> >>, << <<s_pid, s_mdl>>, undefinedArray>> },
      grants \in
        { NoGrants,
          [authorization_code |-> [issuer_state |-> s_state, authorization_server |-> undefined],
           pre_authorized_code |-> NoGrant] }
        \cup { [authorization_code |-> NoGrant,
                pre_authorized_code |->
                  [pre_authorized_code |-> s_code, user_pin_required |-> pin,
                   tx_code |-> tx_code, authorization_server |-> s_https_as]] :
                 pin \in {"undefined", "true"},
                 tx_code \in
                   { NoTxCode,
                     [input_mode |-> "undefined", length |-> "4", description |-> s_quoted],
                     [input_mode |-> "text", length |-> "undefined",
                      description |-> undefined] } },
      extra \in {undefined, s_quoted} }

\* The strings handed to resolveCredentialOffer: the urls of published
\* offers, and urls with both parameters, with neither, without a scheme
\* and with an inline offer that is no JSON.
CredentialOfferUrlSet ==
  { buildCredentialOfferUrl(offer, scheme) : offer \in PublishedOfferSet, scheme \in SchemeSet }
  \cup { buildCredentialOfferUriUrl(s_offer_uri, scheme) : scheme \in SchemeSet }
  \cup { buildCredentialOfferUrl(offer, s_haip) \o <<"&">>
           \o URLSearchParamsToString(<< <<k_credential_offer_uri, s_offer_uri>> >>)
           : offer \in { o \in PublishedOfferSet : o.grants = NoGrants /\ o.extra = undefined } }
  \cup { s_haip \o <<":","/","/">>,
         s_haip \o <<":","/","/","?">> \o k_extra \o <<"=","1">>,
         <<"?">> \o URLSearchParamsToString(<< <<k_credential_offer_uri, s_offer_uri>> >>),
         s_haip \o <<":","/","/","?">>
           \o URLSearchParamsToString(<< <<k_credential_offer, s_code>> >>) }

CredentialOfferResponseSet ==
  { [status |-> 200, body |-> JSONstringify(offer)] : offer \in PublishedOfferSet }
  \cup { [status |-> 200, body |-> s_code], [status |-> 404, body |-> <<>>] }

\* Oid4vciClient.resolveCredentialOffer
CallResolveCredentialOffer ==
  /\ call = "none"
  /\ \E credentialOffer \in CredentialOfferUrlSet :
       LET step == resolveCredentialOfferStep(credentialOffer) IN
       /\ call' = "Oid4vciClient.resolveCredentialOffer"
       /\ opts' = [credentialOffer |-> credentialOffer]
       /\ IF step.step = "fetch"
          THEN /\ sent' = << [kind |-> "credential_offer", method |-> "GET",
                              url |-> step.url] >>
               /\ pc' = "await_credential_offer"
               /\ UNCHANGED result
          ELSE /\ result' = step.outcome
               /\ pc' = "done"
               /\ UNCHANGED sent
       /\ UNCHANGED <<oauth2Options, pkce, received, built, challenge>>

\* The answer to the GET of credential_offer_uri.
CredentialOfferResponse ==
  /\ call = "Oid4vciClient.resolveCredentialOffer"
  /\ pc = "await_credential_offer"
  /\ \E response \in CredentialOfferResponseSet :
       /\ received' = <<response>>
       /\ result' = IF response.status # 200 THEN Throw(InvalidFetchResponseError)
                    ELSE credentialOfferOutcome(response.body)
       /\ pc' = "done"
  /\ UNCHANGED <<call, opts, oauth2Options, pkce, sent, built, challenge>>

\* ------------------------------------------------ credential request proof

s_did == <<"d","i","d",":","j","w","k",":","a","#","0">>
s_cert == <<"M","I","I","B">>

NoDate == [absent |-> TRUE]
NoProofTypes == [absent |-> TRUE]
NoProofType == [absent |-> TRUE]
NoConfiguration == [absent |-> TRUE]

\* JwtSigner: the four variants.
JwtSignerSet ==
  UNION { { [method |-> "did", alg |-> alg, didUrl |-> s_did],
            [method |-> "jwk", alg |-> alg, publicJwk |-> jwkA],
            [method |-> "x5c", alg |-> alg, x5c |-> <<s_cert>>],
            [method |-> "custom", alg |-> alg] } : alg \in {"ES256", "EdDSA"} }

\* dateToSeconds: the seconds of a date, of the current time without one.
dateToSeconds(date, dateNow) ==
  LET milliseconds == IF date = NoDate THEN dateNow ELSE date.getTime
  IN  milliseconds \div 1000

\* The header members a signer contributes; a custom signer adds nothing.
jwtHeaderFromJwtSigner(signer) ==
  [kid |-> IF signer.method = "did" THEN signer.didUrl ELSE undefined,
   jwk |-> IF signer.method = "jwk" THEN signer.publicJwk ELSE undefinedJwk,
   x5c |-> IF signer.method = "x5c" THEN signer.x5c ELSE undefinedArray]

\* The key a signature was made with, as a signer names it.
signerKey(signer) ==
  IF signer.method = "jwk" THEN calculateJwkThumbprint(signer.publicJwk)
  ELSE IF signer.method = "did" THEN <<"did", signer.didUrl>>
  ELSE IF signer.method = "x5c" THEN <<"x5c", signer.x5c[1]>>
  ELSE <<"custom">>

\* Mutant: the proof always names the client as its issuer.
createCredentialRequestJwtProofOptions_issAlways(options) ==
  [credentialIssuer |-> options.issuerMetadata.credentialIssuer.credential_issuer,
   signer |-> options.signer,
   clientId |-> IF options.clientId = undefined THEN s_client ELSE options.clientId,
   issuedAt |-> options.issuedAt,
   nonce |-> options.nonce]

\* Oid4vciClient.createCredentialRequestJwtProof: the options it hands to
\* createCredentialRequestJwtProof.
createCredentialRequestJwtProofOptions(options) ==
  [credentialIssuer |-> options.issuerMetadata.credentialIssuer.credential_issuer,
   signer |-> options.signer,
   clientId |-> options.clientId,
   issuedAt |-> options.issuedAt,
   nonce |-> options.nonce]

\* Mutant: every signer is taken for a jwk signer without a key.
proofJwtHeader_noKey(signer) ==
  [alg |-> signer.alg,
   typ |-> "openid4vci-proof+jwt",
   kid |-> undefined,
   jwk |-> undefinedJwk,
   x5c |-> undefinedArray,
   trust_chain |-> undefinedArray]

\* The header of the proof: alg and typ, and what the signer contributes.
proofJwtHeader(signer) ==
  [alg |-> signer.alg,
   typ |-> "openid4vci-proof+jwt",
   kid |-> jwtHeaderFromJwtSigner(signer).kid,
   jwk |-> jwtHeaderFromJwtSigner(signer).jwk,
   x5c |-> jwtHeaderFromJwtSigner(signer).x5c,
   trust_chain |-> undefinedArray]

\* createCredentialRequestJwtProof: header and payload, signed with the
\* signer's key by the signJwt callback.
createCredentialRequestJwtProof(o, dateNow) ==
  [header |-> proofJwtHeader(o.signer),
   payload |-> [nonce |-> o.nonce,
                aud |-> o.credentialIssuer,
                iat |-> dateToSeconds(o.issuedAt, dateNow),
                iss |-> o.clientId],
   signedBy |-> signerKey(o.signer)]

\* credential_configurations_supported[credentialConfigurationId]
credentialConfigurationOf(issuerMetadata, credentialConfigurationId) ==
  LET supported == issuerMetadata.credentialIssuer.credential_configurations_supported IN
  IF \E i \in DOMAIN supported : supported[i][1] = credentialConfigurationId
  THEN supported[CHOOSE i \in DOMAIN supported :
                   supported[i][1] = credentialConfigurationId][2]
  ELSE NoConfiguration

\* Mutant: the alg of the signer is not compared with the algs of the
\* configuration.
proofNotSupported_anyAlg(options) ==
  LET credentialConfiguration ==
        credentialConfigurationOf(options.issuerMetadata, options.credentialConfigurationId)
  IN  IF credentialConfiguration = NoConfiguration
      THEN Throw(Oauth2Error("credential configuration not found"))
      ELSE IF credentialConfiguration.proof_types_supported = NoProofTypes
      THEN NoResult
      ELSE IF credentialConfiguration.proof_types_supported.jwt = NoProofType
      THEN Throw(Oauth2Error("jwt proof type not supported"))
      ELSE NoResult

\* Oid4vciClient.createCredentialRequestJwtProof: what is thrown before the
\* proof is made, NoResult when nothing is.
proofNotSupported(options) ==
  LET credentialConfiguration ==
        credentialConfigurationOf(options.issuerMetadata, options.credentialConfigurationId)
  IN  IF credentialConfiguration = NoConfiguration
      THEN Throw(Oauth2Error("credential configuration not found"))
      ELSE IF credentialConfiguration.proof_types_supported = NoProofTypes
      THEN NoResult
      ELSE IF credentialConfiguration.proof_types_supported.jwt = NoProofType
      THEN Throw(Oauth2Error("jwt proof type not supported"))
      ELSE IF options.signer.alg \notin
                Range(credentialConfiguration.proof_types_supported.jwt
                        .proof_signing_alg_values_supported)
      THEN Throw(Oauth2Error("alg not supported"))
      ELSE NoResult

ProofIssuerMetadataSet ==
  { [credentialIssuer |->
       [credential_issuer |-> s_https_iss,
        authorization_servers |-> <<s_https_as>>,
        credential_configurations_supported |->
          << <<s_pid, [proof_types_supported |-> proofTypes]>> >>]]
    : proofTypes \in { NoProofTypes,
                       [jwt |-> NoProofType],
                       [jwt |-> [proof_signing_alg_values_supported |-> <<"ES256">>]] } }

\* The time of Date.now(), in milliseconds.
DateNowSet == {1000500, 1030000}

CreateCredentialRequestJwtProofOptionsSet ==
  [issuerMetadata : ProofIssuerMetadataSet,
   credentialConfigurationId : {s_pid, s_mdl},
   signer : JwtSignerSet,
   nonce : {s_nonce1, s_nonce2},
   issuedAt : {NoDate, [getTime |-> 1999], [getTime |-> 1000999]},
   clientId : {undefined, s_client}]

\* Oid4vciClient.createCredentialRequestJwtProof
CallCreateCredentialRequestJwtProof ==
  /\ call = "none"
  /\ \E o \in CreateCredentialRequestJwtProofOptionsSet, dateNow \in DateNowSet :
       /\ call' = "Oid4vciClient.createCredentialRequestJwtProof"
       /\ opts' = o
       /\ pc' = "done"
       /\ IF proofNotSupported(o) # NoResult
          THEN /\ result' = proofNotSupported(o)
               /\ UNCHANGED oauth2Options
          ELSE /\ oauth2Options' = createCredentialRequestJwtProofOptions(o)
               /\ result' =
                    Return([jwt |-> jwtCompact(
                              createCredentialRequestJwtProof(
                                createCredentialRequestJwtProofOptions(o), dateNow))])
  /\ UNCHANGED <<pkce, sent, received, built, challenge>>

\* vHttpsUrl
vHttpsUrl(value) == vCredentialIssuerIdentifier(value)

\* Mutant: the header schema without its two checks.
vCredentialRequestJwtProofTypeHeader_unchecked(header) ==
  header.typ = "openid4vci-proof+jwt"

\* vCredentialRequestJwtProofTypeHeader: typ is the literal, jwk and kid
\* are not both defined, and trust_chain or kid is falsy.
vCredentialRequestJwtProofTypeHeader(header) ==
  /\ header.typ = "openid4vci-proof+jwt"
  /\ (header.jwk = undefinedJwk \/ header.kid = undefined)
  /\ (header.trust_chain = undefinedArray \/ ~Truthy(header.kid))

\* vCredentialRequestJwtProofTypePayload: aud is an https url (iat is an
\* integer in every payload here).
vCredentialRequestJwtProofTypePayload(payload) ==
  /\ vHttpsUrl(payload.aud)
  /\ payload.iat \in Int

NoSigner == [absent |-> TRUE]

\* The signer a header names.
jwtSignerFromJwt(header) ==
  IF header.jwk # undefinedJwk
  THEN [method |-> "jwk", alg |-> header.alg, publicJwk |-> header.jwk]
  ELSE IF header.x5c # undefinedArray
  THEN [method |-> "x5c", alg |-> header.alg, x5c |-> header.x5c]
  ELSE IF Truthy(header.kid)
  THEN [method |-> "did", alg |-> header.alg, didUrl |-> header.kid]
  ELSE NoSigner

Oid4vciError(message) == [type |-> "Oid4vciError", message |-> message]

\* Mutant: the nonce of the proof is not compared.
verifyCredentialRequestJwtProof_anyNonce(options) ==
  LET jwt == decodeJwt(options.jwt)
      signer == jwtSignerFromJwt(jwt.header)
  IN  IF ~vCredentialRequestJwtProofTypeHeader(jwt.header)
         \/ ~vCredentialRequestJwtProofTypePayload(jwt.payload)
      THEN Throw(ValidationError)
      ELSE IF signer = NoSigner \/ jwt.signedBy # signerKey(signer)
      THEN Throw(Oid4vciError("signature"))
      ELSE IF jwt.payload.aud # options.issuerMetadata.credentialIssuer.credential_issuer
      THEN Throw(Oid4vciError("aud"))
      ELSE IF \/ jwt.payload.iat < options.now - ClockSkew
              \/ jwt.payload.iat > options.now + ClockSkew
      THEN Throw(Oid4vciError("iat"))
      ELSE Return([header |-> jwt.header, payload |-> jwt.payload, signer |-> signer])

\* verifyCredentialRequestJwtProof: the schemas of header and payload, the
\* signature of the key the header names, aud, nonce and iat.
verifyCredentialRequestJwtProof(options) ==
  LET jwt == decodeJwt(options.jwt)
      signer == jwtSignerFromJwt(jwt.header)
  IN  IF ~vCredentialRequestJwtProofTypeHeader(jwt.header)
         \/ ~vCredentialRequestJwtProofTypePayload(jwt.payload)
      THEN Throw(ValidationError)
      ELSE IF signer = NoSigner \/ jwt.signedBy # signerKey(signer)
      THEN Throw(Oid4vciError("signature"))
      ELSE IF jwt.payload.aud # options.issuerMetadata.credentialIssuer.credential_issuer
      THEN Throw(Oid4vciError("aud"))
      ELSE IF jwt.payload.nonce # options.expectedNonce
      THEN Throw(Oid4vciError("nonce"))
      ELSE IF \/ jwt.payload.iat < options.now - ClockSkew
              \/ jwt.payload.iat > options.now + ClockSkew
      THEN Throw(Oid4vciError("iat"))
      ELSE Return([header |-> jwt.header, payload |-> jwt.payload, signer |-> signer])

\* The headers of the proofs an issuer is sent.
ProofHeaderSet ==
  [alg : {"ES256"},
   typ : {"openid4vci-proof+jwt", "jwt", "undefined"},
   kid : {undefined, <<>>, s_did},
   jwk : {undefinedJwk, jwkA},
   x5c : {undefinedArray, <<s_cert>>},
   trust_chain : {undefinedArray, <<>>, <<s_cert>>}]

\* The options of the proofs wallets make for the issuer.
CreatedProofOptionsSet ==
  [credentialIssuer : {s_https_iss, s_https_x},
   signer : { s \in JwtSignerSet : s.alg = "ES256" },
   clientId : {undefined, s_client},
   issuedAt : {NoDate, [getTime |-> 1999]},
   nonce : {s_nonce1, s_nonce2}]

\* The proofs an issuer is sent: proofs of wallets, proofs with other
\* headers, with another signature and with an aud that is no https url.
ProofJwtSet ==
  { createCredentialRequestJwtProof(o, dateNow)
      : o \in CreatedProofOptionsSet, dateNow \in DateNowSet }
  \cup { [header |-> header,
          payload |-> [nonce |-> s_nonce1, aud |-> s_https_iss, iat |-> 1000,
                       iss |-> undefined],
          signedBy |-> IF jwtSignerFromJwt(header) = NoSigner THEN <<"custom">>
                       ELSE signerKey(jwtSignerFromJwt(header))]
         : header \in ProofHeaderSet }
  \cup { [header |-> proofJwtHeader([method |-> "jwk", alg |-> "ES256", publicJwk |-> jwkA]),
          payload |-> [nonce |-> s_nonce1, aud |-> aud, iat |-> 1000, iss |-> undefined],
          signedBy |-> calculateJwkThumbprint(jwk)]
         : aud \in {s_https_iss, <<"h","t","t","p",":","/","/","i","s","s">>},
           jwk \in {jwkA, jwkB} }

VerifyCredentialRequestJwtProofOptionsSet ==
  { [jwt |-> jwtCompact(jwt),
     expectedNonce |-> expectedNonce,
     issuerMetadata |-> issuerMetadata,
     now |-> now]
    : jwt \in ProofJwtSet, expectedNonce \in {s_nonce1, s_nonce2},
      issuerMetadata \in { m \in ProofIssuerMetadataSet :
                             m.credentialIssuer.credential_configurations_supported[1][2]
                               .proof_types_supported = NoProofTypes },
      now \in NowSet }

\* Oid4vciIssuer.verifyCredentialRequestJwtProof
CallVerifyCredentialRequestJwtProof ==
  /\ call = "none"
  /\ \E o \in VerifyCredentialRequestJwtProofOptionsSet :
       /\ call' = "Oid4vciIssuer.verifyCredentialRequestJwtProof"
       /\ opts' = o
       /\ received' = << [kind |-> "credential_request_proof", jwt |-> o.jwt] >>
       /\ result' = verifyCredentialRequestJwtProof(o)
       /\ pc' = "done"
  /\ UNCHANGED <<oauth2Options, pkce, sent, built, challenge>>

\* ------------------------------------------------------ credential requests

TokenCalls ==
  {"Oauth2Client.retrievePreAuthorizedCodeAccessToken",
   "Oauth2Client.retrieveAuthorizationCodeAccessToken",
   "Oid4vciClient.retrievePreAuthorizedCodeAccessTokenFromOffer",
   "Oid4vciClient.retrieveAuthorizationCodeAccessTokenFromOffer"}

RetrieveCredentialsOptionsSet ==
  [credentialEndpoint : {s_credential, s_credential_query},
   accessToken : {<<"T","1">>},
   dpop : { NoDpop }
          \cup { [signer |-> [method |-> "jwk", alg |-> "ES256", publicJwk |-> jwkA],
                  nonce |-> n] : n \in {undefined, s_nonce1} }]

\* The calls of retrieveCredentials a caller makes: any, or after a token
\* call that returned the successful answer of the token endpoint, the call
\* with the access token and the dpop value of its result
\* ({ ...dpop, signer }).
RetrieveCredentialsCalls ==
  IF call = "none" THEN RetrieveCredentialsOptionsSet
  ELSE IF /\ call \in TokenCalls
          /\ pc = "done"
          /\ received # <<>>
          /\ received[Len(received)].status = 200
          /\ result.kind = "return"
  THEN { [credentialEndpoint |-> s_credential,
          accessToken |-> result.value.accessTokenResponse.access_token,
          dpop |-> result.value.dpop] }
  ELSE {}

\* Mutant: the proof of the credential request is made without the nonce.
credentialRequest_withoutNonce(o, jti, now) ==
  [kind |-> "credential",
   method |-> "POST",
   url |-> o.credentialEndpoint,
   authorization |-> [scheme |-> IF o.dpop = NoDpop THEN "Bearer" ELSE "DPoP",
                      token |-> o.accessToken],
   dpop |-> IF o.dpop = NoDpop THEN NoJwt
            ELSE createDpopJwt(o.dpop.signer, "POST", o.credentialEndpoint,
                               undefined, o.accessToken, jti, now)]

\* The credential request: the access token in the Authorization header,
\* and with a dpop signer a proof for this request, with the nonce the caller
\* passed and the hash of the access token.
credentialRequest(o, jti, now) ==
  [kind |-> "credential",
   method |-> "POST",
   url |-> o.credentialEndpoint,
   authorization |-> [scheme |-> IF o.dpop = NoDpop THEN "Bearer" ELSE "DPoP",
                      token |-> o.accessToken],
   dpop |-> IF o.dpop = NoDpop THEN NoJwt
            ELSE createDpopJwt(o.dpop.signer, "POST", o.credentialEndpoint,
                               o.dpop.nonce, o.accessToken, jti, now)]

\* Oid4vciClient.retrieveCredentials, up to the request it sends to the
\* credential endpoint.
CallRetrieveCredentials ==
  \E o \in RetrieveCredentialsCalls, jti \in RandomSet, now \in NowSet :
    /\ call' = "Oid4vciClient.retrieveCredentials"
    /\ opts' = o
    /\ sent' = Append(sent, credentialRequest(o, jti, now))
    /\ pc' = "await_credential"
    /\ result' = NoResult
    /\ UNCHANGED <<oauth2Options, pkce, received, built, challenge>>

Next ==
  \/ CallOauth2ClientInitiateAuthorization
  \/ CallOid4vciClientInitiateAuthorization
  \/ AuthorizationChallengeResponse
  \/ PushedAuthorizationResponse
  \/ CallRetrievePreAuthorizedCodeAccessToken
  \/ CallRetrieveAuthorizationCodeAccessToken
  \/ AccessTokenResponse
  \/ CallCreateAccessToken
  \/ CallVerifyResourceRequest
  \/ JwksResponse
  \/ CallRetrieveAuthorizationCodeUsingPresentation
  \/ PresentationChallengeResponse
  \/ CallCreateAuthorizationRequestUrlFromOffer
  \/ CallParseAccessTokenRequest
  \/ CallParseFormEncodedAccessTokenRequest
  \/ CallValidateCredentialOffer
  \/ CallValidateCredentialOfferAgain
  \/ CallResolveCredentialOffer
  \/ CredentialOfferResponse
  \/ CallRetrievePreAuthorizedCodeAccessTokenFromOffer
  \/ CallRetrieveAuthorizationCodeAccessTokenFromOffer
  \/ CallCreateCredentialRequestJwtProof
  \/ CallVerifyCredentialRequestJwtProof
  \/ CallRetrieveCredentials

Spec == Init /\ [][Next]_vars

\* ------------------------------------------------------------------ claims

InitiateAuthorizationCalls ==
  {"Oauth2Client.initiateAuthorization", "Oid4vciClient.initiateAuthorization"}

RequestsOfKind(kind) == { i \in DOMAIN sent : sent[i].kind = kind }

\* The value of a parameter of a request, undefined when it has none.
ParamValue(params, name) ==
  IF \E i \in DOMAIN params : params[i][1] = name
  THEN params[CHOOSE i \in DOMAIN params : params[i][1] = name][2]
  ELSE undefined

\* The challenge request failed with an authorization challenge error response.
ChallengeFailedWith(code) ==
  /\ call \in InitiateAuthorizationCalls
  /\ challenge.kind = "throw"
  /\ challenge.error.type = "Oauth2ClientAuthorizationChallengeError"
  /\ challenge.error.errorResponse.error = code

\* C1 (as claimed): when the authorization challenge request succeeds with an
\* authorization_code, initiateAuthorization returns that code to the caller,
\* sends no pushed authorization request and builds no authorization url.
C1_ChallengeCodeShortCircuits ==
  (call \in InitiateAuthorizationCalls /\ challenge.kind = "return")
    => /\ pc = "done"
       /\ result.kind = "return"
       /\ "authorizationCode" \in DOMAIN result.value
       /\ result.value.authorizationCode
            = challenge.value.authorizationChallengeResponse.authorization_code
       /\ RequestsOfKind("pushed_authorization_request") = {}
       /\ built = <<>>

\* C7: a redirect_to_web error with a request_uri makes initiateAuthorization
\* return <authorization_endpoint>?request_uri=<request_uri>&client_id=<clientId>
\* (values form-urlencoded) with the pkce pair of the challenge request, in
\* the redirect flow, without any pushed authorization request.
C7_RedirectToWebWithRequestUri ==
  (ChallengeFailedWith(RedirectToWeb)
     /\ Truthy(challenge.error.errorResponse.request_uri))
    => /\ pc = "done"
       /\ result.kind = "return"
       /\ result.value.authorizationRequestUrl
            = Str(oauth2Options.authorizationServerMetadata.authorization_endpoint)
              \o <<"?">> \o k_request_uri \o <<"=">>
              \o urlencode(challenge.error.errorResponse.request_uri)
              \o <<"&">> \o k_client_id \o <<"=">> \o urlencode(opts.clientId)
       /\ built = <<result.value.authorizationRequestUrl>>
       /\ result.value.pkce = pkce
       /\ sent[1].pkceCodeVerifier = pkceCodeVerifierOf(pkce)
       /\ pkce # undefinedPkce
            => ParamValue(sent[1].params, k_code_challenge) = pkce.codeChallenge
       /\ call = "Oid4vciClient.initiateAuthorization"
            => result.value.authorizationFlow = Oauth2Redirect
       /\ Len(sent) = 1
       /\ RequestsOfKind("pushed_authorization_request") = {}

C7_Witness ==
  /\ pc = "done"
  /\ call = "Oid4vciClient.initiateAuthorization"
  /\ ChallengeFailedWith(RedirectToWeb)
  /\ challenge.error.errorResponse.request_uri = s_urn_x
  /\ result.kind = "return"
  /\ result.value.pkce # undefinedPkce
  /\ oauth2Options.authorizationServerMetadata.authorization_endpoint = s_authorize

\* C8: a redirect_to_web error without a request_uri is swallowed and the call
\* goes on with the normal authorization request (pushed when the server
\* supports that, a plain url otherwise), made with the code verifier the
\* challenge request was made with.
C8_RedirectToWebWithoutRequestUri ==
  (ChallengeFailedWith(RedirectToWeb)
     /\ ~Truthy(challenge.error.errorResponse.request_uri))
    => LET metadata == oauth2Options.authorizationServerMetadata
           expectedParams ==
             objectToQueryParams(
               << <<k_response_type, s_response_code>>,
                  <<k_client_id, oauth2Options.clientId>>,
                  <<k_redirect_uri, oauth2Options.redirectUri>>,
                  <<k_scope, oauth2Options.scope>>,
                  <<k_code_challenge, ParamValue(sent[1].params, k_code_challenge)>>,
                  <<k_code_challenge_method,
                    ParamValue(sent[1].params, k_code_challenge_method)>> >>
               \o oauth2Options.additionalRequestPayload)
       IN
       /\ result # Throw(challenge.error)
       /\ (Truthy(metadata.authorization_endpoint)
             /\ Truthy(metadata.pushed_authorization_request_endpoint))
            => /\ Len(sent) = 2
               /\ sent[2].kind = "pushed_authorization_request"
               /\ sent[2].url = metadata.pushed_authorization_request_endpoint
               /\ sent[2].pkceCodeVerifier = sent[1].pkceCodeVerifier
               /\ sent[2].params = expectedParams
               /\ (pc = "done" /\ result.kind = "return")
                    => pkceCodeVerifierOf(result.value.pkce) = sent[1].pkceCodeVerifier
       /\ (Truthy(metadata.authorization_endpoint)
             /\ ~usesPushedAuthorizationRequest(metadata))
            => /\ pc = "done"
               /\ Len(sent) = 1
               /\ result.kind = "return"
               /\ result.value.authorizationRequestUrl
                    = metadata.authorization_endpoint \o <<"?">>
                      \o URLSearchParamsToString(expectedParams)
               /\ pkceCodeVerifierOf(result.value.pkce) = sent[1].pkceCodeVerifier

C8_Witness ==
  /\ ChallengeFailedWith(RedirectToWeb)
  /\ challenge.error.errorResponse.request_uri = undefined
  /\ Len(sent) = 2
  /\ sent[2].kind = "pushed_authorization_request"
  /\ sent[1].pkceCodeVerifier = s_random2
  /\ opts.pkceCodeVerifier = undefined
  /\ pc = "done"
  /\ result.kind = "return"

\* C9: an insufficient_authorization error with presentation and auth_session
\* makes Oid4vciClient.initiateAuthorization return the
\* PresentationDuringIssuance flow with these two values and the issuer of
\* the authorization server, after the challenge request alone.
C9_PresentationDuringIssuance ==
  (call = "Oid4vciClient.initiateAuthorization"
     /\ ChallengeFailedWith(InsufficientAuthorization)
     /\ Truthy(challenge.error.errorResponse.presentation)
     /\ Truthy(challenge.error.errorResponse.auth_session))
    => /\ pc = "done"
       /\ result
            = Return([authorizationFlow |-> PresentationDuringIssuance,
                      oid4vpRequestUrl |-> challenge.error.errorResponse.presentation,
                      authSession |-> challenge.error.errorResponse.auth_session,
                      authorizationServer |-> s_https_as])
       /\ Len(sent) = 1
       /\ sent[1].kind = "authorization_challenge"
       /\ built = <<>>

C9_Witness ==
  /\ call = "Oid4vciClient.initiateAuthorization"
  /\ ChallengeFailedWith(InsufficientAuthorization)
  /\ challenge.error.errorResponse.presentation = s_oid4vp
  /\ challenge.error.errorResponse.auth_session = s_session
  /\ pc = "done"
  /\ result.kind = "return"
  /\ Len(opts.issuerMetadata.authorizationServers) = 2

\* C10: any other failure of the authorization challenge request reaches the
\* caller as the error it is, and no pushed authorization request or
\* authorization url follows it.
C10_OtherChallengeErrorsPropagate ==
  (call \in InitiateAuthorizationCalls
     /\ challenge.kind = "throw"
     /\ ~ChallengeFailedWith(RedirectToWeb)
     /\ ~(call = "Oid4vciClient.initiateAuthorization"
          /\ ChallengeFailedWith(InsufficientAuthorization)
          /\ Truthy(challenge.error.errorResponse.presentation)
          /\ Truthy(challenge.error.errorResponse.auth_session)))
    => /\ pc = "done"
       /\ result = Throw(challenge.error)
       /\ Len(sent) = 1
       /\ RequestsOfKind("pushed_authorization_request") = {}
       /\ built = <<>>

C10_Witness ==
  /\ call = "Oid4vciClient.initiateAuthorization"
  /\ ChallengeFailedWith(InsufficientAuthorization)
  /\ challenge.error.errorResponse.presentation = s_oid4vp
  /\ challenge.error.errorResponse.auth_session = undefined
  /\ oauth2Options.authorizationServerMetadata.pushed_authorization_request_endpoint = s_par
  /\ pc = "done"
  /\ result.kind = "throw"

AccessTokenCalls ==
  {"Oauth2Client.retrievePreAuthorizedCodeAccessToken",
   "Oauth2Client.retrieveAuthorizationCodeAccessToken"}

\* The i-th answer of the token endpoint asks for a DPoP nonce.
AnsweredUseDpopNonce(i) ==
  /\ call \in AccessTokenCalls
  /\ Len(received) >= i
  /\ received[i].status = 400
  /\ received[i].errorResponse # NoErrorResponse
  /\ received[i].errorResponse.error = UseDpopNonce

\* C2: with a DPoP signer, a first token request answered by 400
\* use_dpop_nonce and a DPoP-Nonce header N is followed by a second token
\* request, the same but for a proof that carries nonce N, and a successful
\* answer to that one is what the call returns.
C2_DpopNonceRetry ==
  (AnsweredUseDpopNonce(1) /\ opts.dpop # NoDpop /\ Truthy(received[1].dpopNonce))
    => /\ Len(sent) >= 2
       /\ sent[2].kind = "access_token"
       /\ sent[2].url = sent[1].url
       /\ sent[2].body = sent[1].body
       /\ sent[2].dpop # NoJwt
       /\ sent[2].dpop.payload.nonce = received[1].dpopNonce
       /\ sent[2].dpop.header.jwk = opts.dpop.signer.publicJwk
       /\ sent[1].dpop.payload.nonce = undefined
       /\ (Len(received) >= 2 /\ received[2].status = 200)
            => /\ pc = "done"
               /\ result.kind = "return"
               /\ result.value.accessTokenResponse = received[2].accessTokenResponse

C2_Witness ==
  /\ call = "Oauth2Client.retrievePreAuthorizedCodeAccessToken"
  /\ AnsweredUseDpopNonce(1)
  /\ received[1].dpopNonce = s_nonce2
  /\ Len(received) = 2
  /\ received[2].status = 200
  /\ sent[2].dpop.payload.nonce = s_nonce2
  /\ pc = "done"
  /\ result.kind = "return"

\* C3: a token acquisition sends at most two token requests; a use_dpop_nonce
\* answer to the second one ends the call with an Oauth2ClientError carrying
\* that answer.
C3_AtMostOneRetry ==
  call \in AccessTokenCalls
    => /\ Cardinality(RequestsOfKind("access_token")) <= 2
       /\ Len(sent) <= 2
       /\ AnsweredUseDpopNonce(2)
            => /\ pc = "done"
               /\ Len(sent) = 2
               /\ result = Throw(Oauth2ClientError(received[2].errorResponse))

C3_Witness ==
  /\ call = "Oauth2Client.retrieveAuthorizationCodeAccessToken"
  /\ AnsweredUseDpopNonce(1)
  /\ AnsweredUseDpopNonce(2)
  /\ received[2].dpopNonce = s_nonce1
  /\ sent[2].dpop.payload.nonce = s_nonce2
  /\ pc = "done"
  /\ result.kind = "throw"

\* A verifyResourceRequest call that has finished.
VerifiedResourceRequest ==
  /\ call = "Oauth2ResourceServer.verifyResourceRequest"
  /\ pc = "done"

\* The request passes every check that comes before the scheme's own: the
\* scheme is allowed, the issuer is known, the token verifies and is current.
AccessTokenAccepted ==
  /\ VerifiedResourceRequest
  /\ authenticationSchemeAllowed(opts)
  /\ issuerKnown(opts)
  /\ Len(received) = 1
  /\ accessTokenJwtVerified(decodeJwt(opts.request.accessToken), received[1])
  /\ accessTokenClaimsVerified(decodeJwt(opts.request.accessToken).payload, opts)

\* C4: under the DPoP scheme verifyResourceRequest returns only when the
\* access token's cnf.jkt is the thumbprint of the key of the DPoP proof;
\* a valid proof of another key fails with invalid_dpop_proof, and a failed
\* call yields neither tokenPayload nor dpopJwk.
C4_DpopBindingChecked ==
  (VerifiedResourceRequest /\ opts.request.scheme = "DPoP")
    => /\ result.kind = "return"
            => /\ opts.request.dpop # NoJwt
               /\ decodeJwt(opts.request.accessToken).payload.cnf # NoCnf
               /\ decodeJwt(opts.request.accessToken).payload.cnf.jkt
                    = <<"sha-256", opts.request.dpop.header.jwk.crv,
                        opts.request.dpop.header.jwk.kty,
                        opts.request.dpop.header.jwk.x,
                        opts.request.dpop.header.jwk.y>>
               /\ result.value.dpopJwk = opts.request.dpop.header.jwk
               /\ result.value.tokenPayload = decodeJwt(opts.request.accessToken).payload
       /\ ( /\ AccessTokenAccepted
            /\ opts.request.dpop # NoJwt
            /\ verifyDpopJwt(opts.request.dpop, opts.request, opts.now)
            /\ decodeJwt(opts.request.accessToken).payload.cnf # NoCnf
            /\ decodeJwt(opts.request.accessToken).payload.cnf.jkt
                 # calculateJwkThumbprint(opts.request.dpop.header.jwk) )
            => /\ result.kind = "throw"
               /\ result.error.error = "invalid_dpop_proof"
               /\ DOMAIN result = {"kind", "error"}

C4_Witness ==
  /\ AccessTokenAccepted
  /\ opts.request.scheme = "DPoP"
  /\ opts.request.dpop # NoJwt
  /\ verifyDpopJwt(opts.request.dpop, opts.request, opts.now)
  /\ decodeJwt(opts.request.accessToken).payload.cnf
       = [jkt |-> calculateJwkThumbprint(jwkA)]
  /\ opts.request.dpop.header.jwk = jwkB
  /\ result.kind = "throw"
  /\ result.error.error = "invalid_dpop_proof"

\* C5: a request with the Bearer scheme whose access token carries cnf.jkt
\* never passes verifyResourceRequest, whatever else the request carries.
C5_BearerSenderConstrainedRejected ==
  ( /\ VerifiedResourceRequest
    /\ opts.request.scheme = "Bearer"
    /\ isJwt(opts.request.accessToken)
    /\ decodeJwt(opts.request.accessToken).payload.cnf # NoCnf )
    => result.kind = "throw"

C5_Witness ==
  /\ AccessTokenAccepted
  /\ opts.request.scheme = "Bearer"
  /\ decodeJwt(opts.request.accessToken).payload.cnf
       = [jkt |-> calculateJwkThumbprint(jwkA)]
  /\ opts.request.dpop # NoJwt
  /\ opts.request.dpop.header.jwk = jwkA
  /\ verifyDpopJwt(opts.request.dpop, opts.request, opts.now)
  /\ result.kind = "throw"

PresentationFollowUp ==
  /\ call = "Oid4vciClient.retrieveAuthorizationCodeUsingPresentation"
  /\ challenge # NoResult

\* C11: the follow-up of a PresentationDuringIssuance result sends one more
\* authorization challenge request, to the challenge endpoint the first one
\* went to, whose session parameters are the auth_session the server gave and
\* the caller's presentation_during_issuance_session, without client_id,
\* scope or other payload (PKCE parameters aside); a 200 answer is returned
\* with its authorization_code.
C11_RetrieveAuthorizationCodeUsingPresentation ==
  PresentationFollowUp
    => /\ Len(sent) = 2
       /\ sent[2].kind = "authorization_challenge"
       /\ sent[2].method = "POST"
       /\ sent[2].url = sent[1].url
       /\ ParamValue(sent[2].params, k_auth_session)
            = received[1].errorResponse.auth_session
       /\ ParamValue(sent[2].params, k_presentation_during_issuance_session)
            = opts.presentationDuringIssuanceSession
       /\ \A i \in DOMAIN sent[2].params :
            sent[2].params[i][1] \in {k_auth_session,
                                      k_presentation_during_issuance_session,
                                      k_code_challenge, k_code_challenge_method}
       /\ oauth2Options.authorizationServerMetadata.code_challenge_methods_supported
            = undefinedArray
            => sent[2].params
                 = << <<k_auth_session, received[1].errorResponse.auth_session>>,
                      <<k_presentation_during_issuance_session,
                        opts.presentationDuringIssuanceSession>> >>
       /\ (Len(received) = 2 /\ received[2].status = 200)
            => /\ pc = "done"
               /\ result.kind = "return"
               /\ result.value.authorizationChallengeResponse.authorization_code
                    = received[2].authorization_code

C11_Witness ==
  /\ PresentationFollowUp
  /\ received[1].errorResponse.auth_session = s_session
  /\ Len(received) = 2
  /\ received[2].status = 200
  /\ sent[2].body = k_auth_session \o <<"=">> \o s_session \o <<"&">>
                    \o k_presentation_during_issuance_session \o <<"=">>
                    \o s_presentation_session
  /\ result.kind = "return"
  /\ result.value.authorizationChallengeResponse.authorization_code = s_code

\* An authorization request is being built without an authorization
\* challenge, for a server that has an authorization_endpoint.
BuildsAuthorizationRequest ==
  /\ call \in InitiateAuthorizationCalls
              \cup {"Oid4vciClient.createAuthorizationRequestUrlFromOffer"}
  /\ oauth2Options # NoOptions
  /\ challenge = NoResult
  /\ RequestsOfKind("authorization_challenge") = {}
  /\ Truthy(oauth2Options.authorizationServerMetadata.authorization_endpoint)

\* The code_challenge parameters of a pkce pair.
PkceParams(p) ==
  IF p = undefinedPkce THEN {}
  ELSE { <<k_code_challenge, p.codeChallenge>>,
         <<k_code_challenge_method, p.codeChallengeMethod>> }

\* The parameters of the authorization request, read off the caller's options.
ExpectedAuthorizationRequestParams ==
  { <<k_response_type, s_response_code>>,
    <<k_client_id, opts.clientId>>,
    <<k_redirect_uri, opts.redirectUri>>,
    <<k_scope, opts.scope>> }
  \cup ( IF call = "Oauth2Client.initiateAuthorization"
           THEN Range(opts.additionalRequestPayload)
         ELSE IF call = "Oid4vciClient.initiateAuthorization"
           THEN {}
         ELSE Range(opts.additionalRequestPayload)
              \cup { <<k_issuer_state, st>> :
                       st \in {opts.credentialOffer.grants.authorization_code.issuer_state}
                              \ {undefined} } )

RECURSIVE QueryLength(_)
\* The length of a query string that carries the given parameters.
QueryLength(pairs) ==
  IF pairs = {} THEN 0
  ELSE LET pair == CHOOSE x \in pairs : TRUE IN
       Len(urlencode(pair[1])) + 1 + Len(urlencode(pair[2]))
       + (IF pairs = {pair} THEN 0 ELSE 1) + QueryLength(pairs \ {pair})

\* The query string has the parameter name=value between its separators.
QueryHas(query, pair) ==
  LET text == urlencode(pair[1]) \o <<"=">> \o urlencode(pair[2]) IN
  \E i \in 1..Len(query) :
    /\ i + Len(text) - 1 <= Len(query)
    /\ SubSeq(query, i, i + Len(text) - 1) = text
    /\ (i = 1 \/ query[i - 1] = "&")
    /\ (i + Len(text) - 1 = Len(query) \/ query[i + Len(text)] = "&")

\* The url is the endpoint followed by a query of exactly these parameters.
UrlCarries(url, endpoint, pairs) ==
  /\ Len(url) = Len(endpoint) + 1 + QueryLength(pairs)
  /\ SubSeq(url, 1, Len(endpoint) + 1) = endpoint \o <<"?">>
  /\ \A pair \in pairs : QueryHas(SubSeq(url, Len(endpoint) + 2, Len(url)), pair)

AuthorizationRequestCalls ==
  InitiateAuthorizationCalls \cup {"Oid4vciClient.createAuthorizationRequestUrlFromOffer"}

\* The PKCE method the server's metadata calls for, undefined for none.
AdvertisedPkceMethod ==
  LET methods == Range(oauth2Options.authorizationServerMetadata
                         .code_challenge_methods_supported) IN
  IF S256 \in methods THEN S256 ELSE IF plain \in methods THEN plain ELSE undefined

\* The call built a plain authorization request url (not one of a request_uri).
BuiltPlainAuthorizationRequestUrl ==
  /\ built # <<>>
  /\ RequestsOfKind("pushed_authorization_request") = {}
  /\ ~(challenge.kind = "throw" /\ Truthy(challenge.error.errorResponse.request_uri))

\* The query of a url has a parameter of this name.
UrlHasParam(url, name) ==
  \E i \in 1..Len(url) :
    /\ url[i] \in {"?", "&"}
    /\ i + Len(name) + 1 <= Len(url)
    /\ SubSeq(url, i + 1, i + Len(name) + 1) = name \o <<"=">>

\* C13: every authorization challenge request, pushed authorization request
\* and plain authorization url of initiateAuthorization /
\* createAuthorizationRequestUrl uses S256 when the server lists it, plain
\* when the server lists plain and not S256, and has no code_challenge at all
\* otherwise; the pkce returned is of that method, or absent.
C13_PkceMethod ==
  (call \in AuthorizationRequestCalls /\ oauth2Options # NoOptions)
    => /\ \A i \in DOMAIN sent :
            /\ ParamValue(sent[i].params, k_code_challenge_method) = AdvertisedPkceMethod
            /\ ParamValue(sent[i].params, k_code_challenge) = undefined
                 <=> AdvertisedPkceMethod = undefined
       /\ BuiltPlainAuthorizationRequestUrl
            => /\ UrlHasParam(built[1], k_code_challenge_method)
                    <=> AdvertisedPkceMethod # undefined
               /\ UrlHasParam(built[1], k_code_challenge)
                    <=> AdvertisedPkceMethod # undefined
               /\ AdvertisedPkceMethod # undefined
                    => QueryHas(SubSeq(built[1],
                                       Len(oauth2Options.authorizationServerMetadata
                                             .authorization_endpoint) + 2,
                                       Len(built[1])),
                                <<k_code_challenge_method, AdvertisedPkceMethod>>)
       /\ (pc = "done" /\ result.kind = "return" /\ "pkce" \in DOMAIN result.value)
            => /\ result.value.pkce.codeChallengeMethod = AdvertisedPkceMethod
               /\ result.value.pkce = undefinedPkce <=> AdvertisedPkceMethod = undefined

C13_Witness ==
  /\ call = "Oauth2Client.initiateAuthorization"
  /\ oauth2Options.authorizationServerMetadata.code_challenge_methods_supported
       = <<plain, S256>>
  /\ Len(sent) = 2
  /\ sent[1].kind = "authorization_challenge"
  /\ sent[2].kind = "pushed_authorization_request"
  /\ ParamValue(sent[2].params, k_code_challenge_method) = S256
  /\ pc = "done"
  /\ result.kind = "return"
  /\ result.value.pkce.codeChallengeMethod = S256

\* C14: with a code verifier from the caller and S256 in use, the pkce
\* returned has that verifier and the challenge base64url(sha256(verifier)),
\* and that challenge is the code_challenge of every request and url sent to
\* the authorization server.
C14_S256ChallengeOfCallerVerifier ==
  ( /\ call \in AuthorizationRequestCalls
    /\ oauth2Options # NoOptions
    /\ opts.pkceCodeVerifier # undefined
    /\ AdvertisedPkceMethod = S256 )
    => /\ \A i \in DOMAIN sent :
            ParamValue(sent[i].params, k_code_challenge)
              = sha256Base64Url(opts.pkceCodeVerifier)
       /\ BuiltPlainAuthorizationRequestUrl
            => QueryHas(SubSeq(built[1],
                               Len(oauth2Options.authorizationServerMetadata
                                     .authorization_endpoint) + 2,
                               Len(built[1])),
                        <<k_code_challenge, sha256Base64Url(opts.pkceCodeVerifier)>>)
       /\ (pc = "done" /\ result.kind = "return" /\ "pkce" \in DOMAIN result.value)
            => /\ result.value.pkce.codeVerifier = opts.pkceCodeVerifier
               /\ result.value.pkce.codeChallenge
                    = sha256Base64Url(result.value.pkce.codeVerifier)
               /\ result.value.pkce.codeChallengeMethod = S256

C14_Witness ==
  /\ call = "Oid4vciClient.createAuthorizationRequestUrlFromOffer"
  /\ opts.pkceCodeVerifier = s_verifier
  /\ Len(sent) = 1
  /\ ParamValue(sent[1].params, k_code_challenge) = <<"h",".">> \o s_verifier
  /\ ParamValue(sent[1].params, k_code_challenge_method) = S256
  /\ pc = "done"
  /\ result.kind = "return"
  /\ result.value.pkce = [codeVerifier |-> s_verifier,
                          codeChallenge |-> <<"h",".">> \o s_verifier,
                          codeChallengeMethod |-> S256]

ParsedAccessTokenRequest ==
  call = "Oauth2AuthorizationServer.parseAccessTokenRequest" /\ pc = "done"

ThrowsServerError(error) ==
  /\ result.kind = "throw"
  /\ result.error.type = "Oauth2ServerErrorResponseError"
  /\ result.error.errorResponse.error = error

\* The grant type of the body is one of the two grants and the body has the
\* code of that grant.
GrantWellFormed(body) ==
  \/ /\ member(body, k_grant_type) = preAuthorizedCodeGrantIdentifier
     /\ Truthy(member(body, k_pre_authorized_code))
  \/ /\ member(body, k_grant_type) = authorizationCodeGrantIdentifier
     /\ Truthy(member(body, k_code))

\* The members of an object that have a value.
DefinedEntries(object) ==
  { object[i] : i \in { j \in DOMAIN object : object[j][2] # undefined } }

\* C15: parseAccessTokenRequest on a body that passes the schema and whose
\* grant_type is missing or is neither of the two grants throws
\* Oauth2ServerErrorResponseError with error invalid_grant (or
\* unsupported_grant_type), and returns no grant.
C15_UnsupportedGrantType ==
  ( /\ ParsedAccessTokenRequest
    /\ vAccessTokenRequest(opts.accessTokenRequest)
    /\ member(opts.accessTokenRequest, k_grant_type)
         \notin {preAuthorizedCodeGrantIdentifier, authorizationCodeGrantIdentifier} )
    => /\ ThrowsServerError(InvalidGrant) \/ ThrowsServerError("unsupported_grant_type")
       /\ result.kind # "return"

C15_Witness ==
  /\ ParsedAccessTokenRequest
  /\ member(opts.accessTokenRequest, k_grant_type) = s_refresh_token
  /\ member(opts.accessTokenRequest, k_code) = s_code
  /\ opts.request.headers.DPoP = undefined
  /\ ThrowsServerError(InvalidGrant)

\* C16: parseAccessTokenRequest throws Oauth2ServerErrorResponseError with
\* error invalid_request when the body of a pre-authorized code grant has no
\* non-empty 'pre-authorized_code' or the body of an authorization code grant
\* has no non-empty 'code'; when it returns, the grant has the grant_type of
\* the body as grantType and the code of the body unchanged.
C16_GrantCarriesCode ==
  ParsedAccessTokenRequest
    => LET body == opts.accessTokenRequest
           grant_type == member(body, k_grant_type) IN
       /\ ( /\ grant_type = preAuthorizedCodeGrantIdentifier
            /\ ~Truthy(member(body, k_pre_authorized_code)) )
            => ThrowsServerError(InvalidRequest)
       /\ ( /\ grant_type = authorizationCodeGrantIdentifier
            /\ ~Truthy(member(body, k_code)) )
            => ThrowsServerError(InvalidRequest)
       /\ result.kind = "return"
            => /\ result.value.grant.grantType = grant_type
               /\ grant_type = preAuthorizedCodeGrantIdentifier
                    => /\ Truthy(member(body, k_pre_authorized_code))
                       /\ result.value.grant.preAuthorizedCode
                            = member(body, k_pre_authorized_code)
               /\ grant_type = authorizationCodeGrantIdentifier
                    => /\ Truthy(member(body, k_code))
                       /\ result.value.grant.code = member(body, k_code)

C16_Witness ==
  /\ ParsedAccessTokenRequest
  /\ member(opts.accessTokenRequest, k_grant_type) = authorizationCodeGrantIdentifier
  /\ member(opts.accessTokenRequest, k_code) = s_empty
  /\ member(opts.accessTokenRequest, k_pre_authorized_code) = s_code
  /\ ThrowsServerError(InvalidRequest)

\* C17: on a body whose grant is accepted, parseAccessTokenRequest throws
\* Oauth2ServerErrorResponseError with error invalid_dpop_proof when the
\* DPoP header is not a well-formed jwt, returns dpopJwt undefined when the
\* request has no DPoP header, and returns a well-formed header value as
\* dpopJwt whatever its signature.
C17_DpopHeaderShapeOnly ==
  ( /\ ParsedAccessTokenRequest
    /\ vAccessTokenRequest(opts.accessTokenRequest)
    /\ GrantWellFormed(opts.accessTokenRequest) )
    => LET header == opts.request.headers.DPoP IN
       /\ (header # undefined /\ ~isJwt(header))
            => ThrowsServerError(InvalidDpopProof)
       /\ header = undefined
            => result.kind = "return" /\ result.value.dpopJwt = undefined
       /\ (header # undefined /\ isJwt(header))
            => result.kind = "return" /\ result.value.dpopJwt = header

C17_Witness ==
  /\ ParsedAccessTokenRequest
  /\ GrantWellFormed(opts.accessTokenRequest)
  /\ isJwt(opts.request.headers.DPoP)
  /\ decodeJwt(opts.request.headers.DPoP).signedBy
       # calculateJwkThumbprint(decodeJwt(opts.request.headers.DPoP).header.jwk)
  /\ result.kind = "return"
  /\ result.value.dpopJwt = opts.request.headers.DPoP

\* C18: an access token request of either grant that is form-encoded, decoded
\* and handed to parseAccessTokenRequest comes back as accessTokenRequest
\* with the same members and values.
C18_FormEncodingRoundTrip ==
  ( /\ ParsedAccessTokenRequest
    /\ received # <<>>
    /\ GrantWellFormed(received[1].accessTokenRequest)
    /\ extractDpopJwtFromHeaders(opts.request.headers).valid )
    => /\ result.kind = "return"
       /\ DefinedEntries(result.value.accessTokenRequest)
            = DefinedEntries(received[1].accessTokenRequest)

C18_Witness ==
  /\ ParsedAccessTokenRequest
  /\ received # <<>>
  /\ member(received[1].accessTokenRequest, k_grant_type)
       = preAuthorizedCodeGrantIdentifier
  /\ member(received[1].accessTokenRequest, k_pre_authorized_code) = s_special
  /\ member(received[1].accessTokenRequest, k_tx_code) = undefined
  /\ member(received[1].accessTokenRequest, k_redirect_uri) = s_redirect
  /\ result.kind = "return"
  /\ member(result.value.accessTokenRequest, k_pre_authorized_code) = s_special
  /\ result.value.grant.txCode = undefined

ValidatedCredentialOffer ==
  call = "parseWithErrorHandling(vCredentialOfferObject)" /\ pc = "done"

\* An offer of draft 11: it has credentials and no credential_configuration_ids.
Draft11Offer(data) ==
  /\ data.credentials # undefinedArray
  /\ data.credential_configuration_ids = undefinedArray

HasPreAuthorizedCodeGrant(offer) ==
  offer.grants # NoGrants /\ offer.grants.pre_authorized_code # NoGrant

\* C19: the offer returned for a draft 11 offer has the credentials as
\* credential_configuration_ids and no credentials, no user_pin_required,
\* in the pre-authorized code grant a tx_code of input_mode "text" alone
\* exactly when user_pin_required was true, and every other member as the
\* offer had it.
C19_Draft11BecomesDraft14 ==
  ( /\ ValidatedCredentialOffer
    /\ oauth2Options = NoOptions
    /\ Draft11Offer(opts.data)
    /\ result.kind = "return" )
    => LET data == opts.data
           v14 == result.value IN
       /\ v14.credential_configuration_ids = data.credentials
       /\ v14.credentials = undefinedArray
       /\ v14.credential_issuer = data.credential_issuer
       /\ v14.extra = data.extra
       /\ (data.grants = NoGrants) <=> (v14.grants = NoGrants)
       /\ data.grants # NoGrants
            => /\ v14.grants.authorization_code = data.grants.authorization_code
               /\ (data.grants.pre_authorized_code = NoGrant)
                    <=> (v14.grants.pre_authorized_code = NoGrant)
       /\ HasPreAuthorizedCodeGrant(data)
            => LET grant == data.grants.pre_authorized_code
                   out == v14.grants.pre_authorized_code IN
               /\ out.user_pin_required = "undefined"
               /\ out.pre_authorized_code = grant.pre_authorized_code
               /\ out.authorization_server = grant.authorization_server
               /\ grant.user_pin_required = "true"
                    => out.tx_code = [input_mode |-> "text", length |-> "undefined",
                                      description |-> undefined]
               /\ (grant.user_pin_required # "true" /\ grant.tx_code = NoTxCode)
                    => out.tx_code = NoTxCode

C19_Witness ==
  /\ ValidatedCredentialOffer
  /\ oauth2Options = NoOptions
  /\ opts.data.credentials = <<s_pid, s_mdl>>
  /\ opts.data.credential_configuration_ids = undefinedArray
  /\ opts.data.extra = s_extra
  /\ HasPreAuthorizedCodeGrant(opts.data)
  /\ opts.data.grants.pre_authorized_code.user_pin_required = "true"
  /\ opts.data.grants.pre_authorized_code.tx_code = NoTxCode
  /\ opts.data.grants.authorization_code # NoGrant
  /\ result.kind = "return"
  /\ result.value.credential_configuration_ids = <<s_pid, s_mdl>>
  /\ result.value.grants.pre_authorized_code.tx_code.input_mode = "text"

\* C20: an offer the credential offer schema returned is returned unchanged
\* when it is validated again, and a returned offer has the
\* credential_issuer of the offer that was validated.
C20_ValidationIdempotent ==
  ValidatedCredentialOffer
    => /\ oauth2Options # NoOptions => result = Return(oauth2Options.data)
       /\ result.kind = "return"
            => result.value.credential_issuer = opts.data.credential_issuer

C20_Witness ==
  /\ ValidatedCredentialOffer
  /\ oauth2Options # NoOptions
  /\ Draft11Offer(opts.data)
  /\ HasPreAuthorizedCodeGrant(opts.data)
  /\ opts.data.grants.pre_authorized_code.user_pin_required = "true"
  /\ oauth2Options.data.credentials = undefinedArray
  /\ result = Return(oauth2Options.data)
  /\ result.value.credential_issuer = s_https_iss

\* C21 (as claimed): an offer the credential offer schema returned that has
\* a grants member has at least one of the two grants in it.
C21_GrantsHaveAGrant ==
  ( /\ ValidatedCredentialOffer
    /\ result.kind = "return"
    /\ result.value.grants # NoGrants )
    => \/ result.value.grants.authorization_code # NoGrant
       \/ result.value.grants.pre_authorized_code # NoGrant

ResolvedCredentialOffer ==
  call = "Oid4vciClient.resolveCredentialOffer" /\ pc = "done"

\* An offer as the credential offer schema returns it: validating it gives
\* the same object.
OfferAsReturned(offer) == parseWithErrorHandling(offer) = Return(offer)

QueryParamPresent(url, key) ==
  /\ getQueryParams(url).kind = "return"
  /\ member(getQueryParams(url).value, key) # undefined

C23_ExactlyOneOfferParameter ==
  call = "Oid4vciClient.resolveCredentialOffer" =>
    LET url == opts.credentialOffer
        inline == QueryParamPresent(url, k_credential_offer)
        byUri == QueryParamPresent(url, k_credential_offer_uri)
    IN  /\ (getQueryParams(url).kind = "return" /\ inline = byUri)
             => /\ pc = "done"
                /\ result = Throw(InvalidCredentialOfferError)
                /\ sent = <<>>
        /\ (pc = "done" /\ result.kind = "return") => inline # byUri
        /\ sent # <<>> => (byUri /\ ~inline)

C23_Witness ==
  /\ ResolvedCredentialOffer
  /\ QueryParamPresent(opts.credentialOffer, k_credential_offer)
  /\ QueryParamPresent(opts.credentialOffer, k_credential_offer_uri)
  /\ result = Throw(InvalidCredentialOfferError)
  /\ sent = <<>>

PreAuthorizedCodeFromOffer ==
  call = "Oid4vciClient.retrievePreAuthorizedCodeAccessTokenFromOffer"

\* The grant of the offer that the call in progress works with.
GrantOfCall ==
  grantOf(opts.credentialOffer,
          IF PreAuthorizedCodeFromOffer THEN preAuthorizedCodeGrantIdentifier
          ELSE authorizationCodeGrantIdentifier)

EndpointsOf(metadata) ==
  { metadata.token_endpoint, metadata.authorization_endpoint,
    metadata.authorization_challenge_endpoint,
    metadata.pushed_authorization_request_endpoint } \ {undefined}

\* C24: for a call with an offer that has the grant, a server the grant pins
\* is selected when the issuer lists it and the call fails when it does not;
\* without a pin the only listed server is selected and the call fails as
\* ambiguous when several are listed. Every request of the call goes to an
\* endpoint of the selected server's metadata, and the selected server is
\* the one returned.
C24_AuthorizationServerOfOffer ==
  ( /\ call \in FromOfferCalls \cup {"Oid4vciClient.initiateAuthorization"}
    /\ GrantOfCall # NoGrant
    /\ PreAuthorizedCodeFromOffer
         => (GrantOfCall.tx_code = NoTxCode \/ Truthy(opts.txCode)) )
  => LET pin == GrantOfCall.authorization_server
         listed == opts.issuerMetadata.credentialIssuer.authorization_servers
         known == opts.issuerMetadata.authorizationServers
         selected == IF pin # undefined THEN pin ELSE listed[1]
         metadata == known[CHOOSE i \in DOMAIN known : known[i].issuer = selected]
     IN  IF pin # undefined /\ pin \notin Range(listed)
         THEN /\ pc = "done"
              /\ result = Throw(Oauth2Error("unknown_authorization_server"))
              /\ sent = <<>>
         ELSE IF pin = undefined /\ Len(listed) > 1
         THEN /\ pc = "done"
              /\ result = Throw(Oauth2Error("ambiguous_authorization_server"))
              /\ sent = <<>>
         ELSE /\ \A i \in DOMAIN sent : sent[i].url \in EndpointsOf(metadata)
              /\ call \in FromOfferCalls
                   => sent # <<>> /\ sent[1].url = metadata.token_endpoint
              /\ (pc = "done" /\ result.kind = "return")
                   => IF call \in FromOfferCalls
                      THEN result.authorizationServer = selected
                      ELSE result.value.authorizationServer = selected

C24_Witness ==
  /\ PreAuthorizedCodeFromOffer
  /\ pc = "done"
  /\ result.kind = "return"
  /\ GrantOfCall.authorization_server = s_https_as2
  /\ Len(opts.issuerMetadata.authorizationServers) = 2
  /\ result.authorizationServer = s_https_as2
  /\ sent[1].url = opts.issuerMetadata.authorizationServers[2].token_endpoint

OfferCalls ==
  FromOfferCalls
  \cup {"Oid4vciClient.initiateAuthorization",
        "Oid4vciClient.retrieveAuthorizationCodeUsingPresentation",
        "Oid4vciClient.createAuthorizationRequestUrlFromOffer"}

\* C25: a call with an offer that has no grants, or not the grant the call
\* needs, throws an Oauth2Error, and no request was sent (so no DPoP proof
\* was signed either).
C25_MissingGrantThrowsFirst ==
  (call \in OfferCalls /\ GrantOfCall = NoGrant)
    => /\ pc = "done"
       /\ result.kind = "throw"
       /\ result.error.type = "Oauth2Error"
       /\ sent = <<>>
       /\ received = <<>>

C25_Witness ==
  /\ PreAuthorizedCodeFromOffer
  /\ opts.credentialOffer.grants # NoGrants
  /\ opts.credentialOffer.grants.authorization_code # NoGrant
  /\ opts.credentialOffer.grants.pre_authorized_code = NoGrant
  /\ opts.dpop # NoDpop
  /\ result.kind = "throw"
  /\ result.error.type = "Oauth2Error"
  /\ sent = <<>>

\* pre-authorized_code=C0de&grant_type=urn%3Aietf%3A...%3Apre-authorized_code
s_pre_authorized_code_body ==
  <<"p","r","e","-","a","u","t","h","o","r","i","z","e","d","_","c","o","d","e","=","C","0","d","e","&","g","r","a","n","t","_","t","y","p","e","=","u","r","n","%","3","A","i","e","t","f","%","3","A","p","a","r","a","m","s","%","3","A","o","a","u","t","h","%","3","A","g","r","a","n","t","-","t","y","p","e","%","3","A","p","r","e","-","a","u","t","h","o","r","i","z","e","d","_","c","o","d","e">>

PreAuthorizedCodeCalls ==
  {"Oauth2Client.retrievePreAuthorizedCodeAccessToken",
   "Oid4vciClient.retrievePreAuthorizedCodeAccessTokenFromOffer"}

\* The pre-authorized code the call in progress redeems.
CodeOfCall ==
  IF PreAuthorizedCodeFromOffer THEN GrantOfCall.pre_authorized_code
  ELSE opts.preAuthorizedCode

\* C26: every access token request of a pre-authorized code call made without
\* txCode and without additional payload is a form-encoded body with exactly
\* the parameters grant_type (the pre-authorized code grant) and
\* pre-authorized_code (the code); there is no tx_code and no user_pin.
C26_OnlyGrantTypeAndCode ==
  ( /\ call \in PreAuthorizedCodeCalls
    /\ opts.txCode = undefined
    /\ opts.additionalRequestPayload = <<>> )
  => \A i \in DOMAIN sent :
       LET params == parseXwwwFormUrlEncoded(sent[i].body) IN
       /\ Len(params) = 2
       /\ Range(params) = { <<k_grant_type, preAuthorizedCodeGrantIdentifier>>,
                            <<k_pre_authorized_code, CodeOfCall>> }
       /\ ~UrlHasParam(<<"?">> \o sent[i].body, k_tx_code)
       /\ ~UrlHasParam(<<"?">> \o sent[i].body, <<"u","s","e","r","_","p","i","n">>)

C26_Witness ==
  /\ PreAuthorizedCodeFromOffer
  /\ opts.txCode = undefined
  /\ opts.additionalRequestPayload = <<>>
  /\ Len(sent) = 2
  /\ sent[2].body = s_pre_authorized_code_body
  /\ pc = "done"

CreatedProof ==
  /\ call = "Oid4vciClient.createCredentialRequestJwtProof"
  /\ pc = "done"
  /\ result.kind = "return"

\* The header members that name a key.
KeyMembers(header) ==
  (IF header.kid # undefined THEN {"kid"} ELSE {})
  \cup (IF header.jwk # undefinedJwk THEN {"jwk"} ELSE {})
  \cup (IF header.x5c # undefinedArray THEN {"x5c"} ELSE {})

\* C27 (as claimed): the header of a proof made has typ
\* openid4vci-proof+jwt, the alg of the signer and exactly one of kid, jwk
\* and x5c, for every signer.
C27_ExactlyOneKeyMember ==
  CreatedProof =>
    LET header == decodeJwt(result.value.jwt).header IN
    /\ header.typ = "openid4vci-proof+jwt"
    /\ header.alg = opts.signer.alg
    /\ Cardinality(KeyMembers(header)) = 1

\* C27: the header of a proof made has typ openid4vci-proof+jwt and the alg
\* of the signer; for a did signer kid is its didUrl, for a jwk signer jwk is
\* its publicJwk, for an x5c signer x5c is its chain, with no other of the
\* three members; for a custom signer the header has none of the three.
C27_HeaderOfSigner ==
  CreatedProof =>
    LET header == decodeJwt(result.value.jwt).header
        signer == opts.signer
    IN  /\ header.typ = "openid4vci-proof+jwt"
        /\ header.alg = signer.alg
        /\ signer.method = "did"
             => KeyMembers(header) = {"kid"} /\ header.kid = signer.didUrl
        /\ signer.method = "jwk"
             => KeyMembers(header) = {"jwk"} /\ header.jwk = signer.publicJwk
        /\ signer.method = "x5c"
             => KeyMembers(header) = {"x5c"} /\ header.x5c = signer.x5c
        /\ signer.method = "custom" => KeyMembers(header) = {}

C27_Witness ==
  /\ CreatedProof
  /\ opts.signer.method = "custom"
  /\ opts.signer.alg = "EdDSA"
  /\ decodeJwt(result.value.jwt).header.alg = "EdDSA"
  /\ KeyMembers(decodeJwt(result.value.jwt).header) = {}

\* C29: the payload of a proof made has the credential_issuer of the issuer
\* metadata as aud, the nonce given, the seconds of issuedAt (milliseconds
\* divided by 1000, rounded down) as iat, and the clientId as iss when one
\* is given and no iss otherwise.
C29_PayloadOfProof ==
  CreatedProof =>
    LET payload == decodeJwt(result.value.jwt).payload IN
    /\ payload.aud = opts.issuerMetadata.credentialIssuer.credential_issuer
    /\ payload.nonce = opts.nonce
    /\ opts.issuedAt # NoDate
         => /\ payload.iat * 1000 <= opts.issuedAt.getTime
            /\ opts.issuedAt.getTime < (payload.iat + 1) * 1000
    /\ opts.issuedAt = NoDate
         => \E dateNow \in DateNowSet :
              /\ payload.iat * 1000 <= dateNow
              /\ dateNow < (payload.iat + 1) * 1000
    /\ payload.iss = opts.clientId

C29_Witness ==
  /\ CreatedProof
  /\ opts.clientId = s_client
  /\ opts.issuedAt # NoDate
  /\ opts.issuedAt.getTime = 1000999
  /\ decodeJwt(result.value.jwt).payload
       = [nonce |-> opts.nonce, aud |-> s_https_iss, iat |-> 1000, iss |-> s_client]

VerifiedProof ==
  call = "Oid4vciIssuer.verifyCredentialRequestJwtProof" /\ pc = "done"

\* C28 (as claimed): a proof whose header has another typ, has both jwk and
\* kid, or has trust_chain together with kid is rejected with a validation
\* error, and a proof that is accepted has none of these.
C28_HeaderSchema ==
  VerifiedProof =>
    LET header == decodeJwt(opts.jwt).header
        wellFormed ==
          /\ header.typ = "openid4vci-proof+jwt"
          /\ ~(header.jwk # undefinedJwk /\ header.kid # undefined)
          /\ header.trust_chain # undefinedArray => header.kid = undefined
    IN  /\ ~wellFormed => result = Throw(ValidationError)
        /\ result.kind = "return" => wellFormed

\* C30: a proof is accepted only if its nonce is the expected nonce and its
\* aud is the credential issuer, and what is returned is its header, its
\* payload and the signer its header names; for a proof made by
\* createCredentialRequestJwtProof for this issuer and nonce, with its iat
\* within the clock skew, that is the header and payload made and the signer
\* it was made with.
C30_VerifyReturnsTheProof ==
  VerifiedProof =>
    LET jwt == decodeJwt(opts.jwt)
        credentialIssuer == opts.issuerMetadata.credentialIssuer.credential_issuer
    IN  /\ result.kind = "return"
             => /\ jwt.payload.nonce = opts.expectedNonce
                /\ jwt.payload.aud = credentialIssuer
                /\ result.value.header = jwt.header
                /\ result.value.payload = jwt.payload
        /\ \A o \in CreatedProofOptionsSet, dateNow \in DateNowSet :
             ( /\ opts.jwt = jwtCompact(createCredentialRequestJwtProof(o, dateNow))
               /\ o.signer.method # "custom"
               /\ o.nonce = opts.expectedNonce
               /\ o.credentialIssuer = credentialIssuer
               /\ dateToSeconds(o.issuedAt, dateNow) >= opts.now - ClockSkew
               /\ dateToSeconds(o.issuedAt, dateNow) <= opts.now + ClockSkew )
             => result =
                  Return([header |-> proofJwtHeader(o.signer),
                          payload |-> [nonce |-> o.nonce,
                                       aud |-> credentialIssuer,
                                       iat |-> dateToSeconds(o.issuedAt, dateNow),
                                       iss |-> o.clientId],
                          signer |-> o.signer])

C30_Witness ==
  /\ VerifiedProof
  /\ result.kind = "return"
  /\ result.value.signer = [method |-> "did", alg |-> "ES256", didUrl |-> s_did]
  /\ result.value.header = proofJwtHeader(result.value.signer)
  /\ result.value.payload.iss = s_client
  /\ result.value.payload.nonce = s_nonce2
  /\ opts.expectedNonce = s_nonce2


\* C31: the DPoP-Nonce header of a successful token response is the nonce of
\* the dpop value the token call returns, and the retrieveCredentials call
\* that is given this dpop value and the access token sends the access token
\* in its Authorization header with a DPoP proof whose nonce is that header
\* value and whose ath is the hash of the access token sent.
C31_DpopNonceHandedOn ==
  [][(/\ call \in TokenCalls
      /\ pc = "done"
      /\ result.kind = "return"
      /\ result.value.dpop # NoDpop
      /\ call' = "Oid4vciClient.retrieveCredentials")
       => /\ received[Len(received)].status = 200
          /\ result.value.dpop.nonce = received[Len(received)].dpopNonce
          /\ sent'[Len(sent')].kind = "credential"
          /\ sent'[Len(sent')].authorization.token
               = result.value.accessTokenResponse.access_token
          /\ sent'[Len(sent')].dpop # NoJwt
          /\ sent'[Len(sent')].dpop.payload.nonce = received[Len(received)].dpopNonce
          /\ sent'[Len(sent')].dpop.payload.ath
               = sha256Base64Url(sent'[Len(sent')].authorization.token)]_vars

C31_Witness ==
  /\ call = "Oid4vciClient.retrieveCredentials"
  /\ Len(received) >= 1
  /\ received[Len(received)].status = 200
  /\ received[Len(received)].dpopNonce = s_nonce1
  /\ sent[Len(sent)].kind = "credential"
  /\ sent[Len(sent)].authorization.scheme = "DPoP"
  /\ sent[Len(sent)].dpop.payload.nonce = s_nonce1
  /\ sent[Len(sent)].dpop.payload.ath = sha256Base64Url(<<"T","2">>)


C32_WitnessBearer ==
  /\ call = "Oauth2AuthorizationServer.createAccessToken"
  /\ opts.dpopJwk = undefinedJwk
  /\ result.kind = "return"
  /\ result.value.token_type = "Bearer"
  /\ decodeJwt(result.value.access_token).payload.cnf = NoCnf


\* C33: within one initiateAuthorization call the requests follow one
\* another: at most one authorization challenge request is sent, it is the
\* first request, a pushed authorization request or an authorization request
\* url comes only after the answer to the challenge request has arrived, and
\* at most one request is without its answer at any time.
C33_RequestsAreSequential ==
  call \in InitiateAuthorizationCalls
    => /\ Cardinality(RequestsOfKind("authorization_challenge")) <= 1
       /\ Cardinality(RequestsOfKind("pushed_authorization_request")) <= 1
       /\ \A i \in RequestsOfKind("authorization_challenge") : i = 1
       /\ Len(sent) - Len(received) \in {0, 1}
       /\ Len(sent) - Len(received) = 1 <=> pc \in {"await_challenge", "await_par"}
       /\ pc = "await_challenge"
            => /\ RequestsOfKind("pushed_authorization_request") = {}
               /\ built = <<>>
       /\ ( /\ RequestsOfKind("authorization_challenge") # {}
            /\ \/ RequestsOfKind("pushed_authorization_request") # {}
               \/ built # <<>> )
            => /\ Len(received) >= 1
               /\ challenge # NoResult
               /\ \A j \in RequestsOfKind("pushed_authorization_request") : j = 2

C33_Witness ==
  /\ call = "Oid4vciClient.initiateAuthorization"
  /\ Len(sent) = 2
  /\ sent[1].kind = "authorization_challenge"
  /\ sent[2].kind = "pushed_authorization_request"
  /\ Len(received) = 2
  /\ built # <<>>
  /\ pc = "done"


C34_WitnessSent ==
  /\ call = "Oid4vciClient.retrievePreAuthorizedCodeAccessTokenFromOffer"
  /\ grantOf(opts.credentialOffer, preAuthorizedCodeGrantIdentifier) # NoGrant
  /\ grantOf(opts.credentialOffer, preAuthorizedCodeGrantIdentifier).tx_code # NoTxCode
  /\ opts.txCode = s_tx_code
  /\ Len(sent) = 2
  /\ ParamValue(sent[2].params, k_tx_code) = s_tx_code


C35_WitnessEveryAlg ==
  /\ call = "Oid4vciClient.createCredentialRequestJwtProof"
  /\ opts.credentialConfigurationId = s_pid
  /\ credentialConfigurationOf(opts.issuerMetadata, s_pid).proof_types_supported
       = NoProofTypes
  /\ opts.signer.alg = "EdDSA"
  /\ result.kind = "return"
  /\ decodeJwt(result.value.jwt).header.alg = "EdDSA"


\* The request has a DPoP header whose value is not a compact jwt.
MalformedDpopHeader ==
  /\ opts.request.headers.DPoP # undefined
  /\ ~isJwt(opts.request.headers.DPoP)

\* C36: parseAccessTokenRequest reports the body schema first, then the
\* grant type and the code it requires, then the DPoP header: with a
\* malformed DPoP header, a body that fails the schema gives invalid_request,
\* an unsupported grant_type gives invalid_grant, a grant without its code
\* gives invalid_request, and only a well-formed grant gives
\* invalid_dpop_proof.
C36_ErrorsInFixedOrder ==
  (ParsedAccessTokenRequest /\ MalformedDpopHeader)
    => LET body == opts.accessTokenRequest
           grant_type == member(body, k_grant_type)
       IN  /\ result.kind = "throw"
           /\ ~vAccessTokenRequest(body) => ThrowsServerError(InvalidRequest)
           /\ ( /\ vAccessTokenRequest(body)
                /\ grant_type \notin {preAuthorizedCodeGrantIdentifier,
                                      authorizationCodeGrantIdentifier} )
                => ThrowsServerError(InvalidGrant)
           /\ ( /\ vAccessTokenRequest(body)
                /\ grant_type = authorizationCodeGrantIdentifier
                /\ member(body, k_code) \in {undefined, <<>>} )
                => ThrowsServerError(InvalidRequest)
           /\ ( /\ vAccessTokenRequest(body)
                /\ grant_type = preAuthorizedCodeGrantIdentifier
                /\ member(body, k_pre_authorized_code) \in {undefined, <<>>} )
                => ThrowsServerError(InvalidRequest)
           /\ ThrowsServerError(InvalidDpopProof)
                <=> (vAccessTokenRequest(body) /\ GrantWellFormed(body))

C36_Witness ==
  /\ ParsedAccessTokenRequest
  /\ MalformedDpopHeader
  /\ vAccessTokenRequest(opts.accessTokenRequest)
  /\ member(opts.accessTokenRequest, k_grant_type) = s_refresh_token
  /\ ThrowsServerError(InvalidGrant)

C36_WitnessMissingCode ==
  /\ ParsedAccessTokenRequest
  /\ MalformedDpopHeader
  /\ vAccessTokenRequest(opts.accessTokenRequest)
  /\ member(opts.accessTokenRequest, k_grant_type) = authorizationCodeGrantIdentifier
  /\ member(opts.accessTokenRequest, k_code) = undefined
  /\ ThrowsServerError(InvalidRequest)


\* The code challenges the call has sent in its requests.
SentCodeChallenges ==
  { ParamValue(sent[i].params, k_code_challenge) : i \in DOMAIN sent } \ {undefined}

\* A code challenge went to the authorization server, in a request or in the
\* authorization request url.
CodeChallengeSent ==
  \/ SentCodeChallenges # {}
  \/ \E i \in DOMAIN built : UrlHasParam(built[i], k_code_challenge)

\* The code challenges a verifier matches.
ChallengesOf(verifier) == {verifier, sha256Base64Url(verifier)}

\* C37: when Oid4vciClient.initiateAuthorization has sent a code_challenge
\* (in the authorization challenge request, the pushed authorization request
\* or the authorization request url) and returns, the caller has the
\* matching code_verifier: it passed the verifier itself, or the result has a
\* pkce with it, whatever the flow returned.
C37_VerifierAvailable ==
  ( /\ call = "Oid4vciClient.initiateAuthorization"
    /\ pc = "done"
    /\ result.kind = "return"
    /\ CodeChallengeSent )
    => \/ /\ opts.pkceCodeVerifier # undefined
          /\ SentCodeChallenges \subseteq ChallengesOf(opts.pkceCodeVerifier)
       \/ /\ "pkce" \in DOMAIN result.value
          /\ result.value.pkce # undefinedPkce
          /\ SentCodeChallenges \subseteq ChallengesOf(result.value.pkce.codeVerifier)

\* The same for the results of the Oauth2Redirect flow only.
C37_VerifierAvailableOnRedirect ==
  ( /\ call = "Oid4vciClient.initiateAuthorization"
    /\ pc = "done"
    /\ result.kind = "return"
    /\ result.value.authorizationFlow = Oauth2Redirect
    /\ CodeChallengeSent )
    => /\ "pkce" \in DOMAIN result.value
       /\ result.value.pkce # undefinedPkce
       /\ SentCodeChallenges \subseteq ChallengesOf(result.value.pkce.codeVerifier)

\* A presentation during issuance is returned for a challenge request that
\* carried the challenge of a verifier the client generated.
C37_VerifierLost ==
  /\ call = "Oid4vciClient.initiateAuthorization"
  /\ pc = "done"
  /\ result.kind = "return"
  /\ result.value.authorizationFlow = PresentationDuringIssuance
  /\ opts.pkceCodeVerifier = undefined
  /\ pkce # undefinedPkce
  /\ SentCodeChallenges = {sha256Base64Url(pkce.codeVerifier)}
  /\ "pkce" \notin DOMAIN result.value


\* The parameters of a request that are not parameters of the authorization
\* request or the authorization challenge request themselves.
AdditionalParams(params) ==
  { params[i] : i \in { j \in DOMAIN params :
      params[j][1] \notin {k_response_type, k_client_id, k_redirect_uri, k_scope,
                           k_code_challenge, k_code_challenge_method,
                           k_auth_session, k_presentation_during_issuance_session} } }

\* The additional request parameters createAuthorizationRequestUrlFromOffer
\* sends for the options of the call: the caller's additionalRequestPayload
\* and the issuer_state of the offer's authorization_code grant.
AdditionalParamsFromOffer ==
  Range(objectToQueryParams(
          createAuthorizationRequestUrlFromOfferOptions(
            opts, oauth2Options.authorizationServerMetadata).additionalRequestPayload))

\* C38: Oid4vciClient.initiateAuthorization sends the authorization server
\* the additional request parameters createAuthorizationRequestUrlFromOffer
\* sends for the same inputs: the caller's additionalRequestPayload and the
\* issuer_state of the offer's authorization_code grant.
C38_SameAdditionalParameters ==
  (call = "Oid4vciClient.initiateAuthorization" /\ oauth2Options # NoOptions)
    => /\ \A i \in DOMAIN sent : AdditionalParams(sent[i].params) = AdditionalParamsFromOffer
       /\ \A i \in DOMAIN built :
            UrlHasParam(built[i], k_request_uri)
            \/ \A pair \in AdditionalParamsFromOffer : UrlHasParam(built[i], pair[1])

\* What createAuthorizationRequestUrlFromOffer itself sends.
C38_FromOfferSendsThem ==
  (call = "Oid4vciClient.createAuthorizationRequestUrlFromOffer" /\ oauth2Options # NoOptions)
    => /\ Range(objectToQueryParams(oauth2Options.additionalRequestPayload))
            = AdditionalParamsFromOffer
       /\ AdditionalParamsFromOffer
            = Range(opts.additionalRequestPayload)
              \cup { <<k_issuer_state, st>> :
                       st \in {opts.credentialOffer.grants.authorization_code.issuer_state}
                              \ {undefined} }
       /\ \A i \in DOMAIN sent : AdditionalParams(sent[i].params) = AdditionalParamsFromOffer
       /\ \A i \in DOMAIN built :
            UrlHasParam(built[i], k_request_uri)
            \/ \A pair \in AdditionalParamsFromOffer : UrlHasParam(built[i], pair[1])

\* What Oid4vciClient.initiateAuthorization sends: no additional parameter.
C38_InitiateSendsNone ==
  (call = "Oid4vciClient.initiateAuthorization" /\ oauth2Options # NoOptions)
    => /\ oauth2Options.additionalRequestPayload = <<>>
       /\ \A i \in DOMAIN sent : AdditionalParams(sent[i].params) = {}

\* An offer with an issuer_state and a caller with an additional parameter:
\* the pushed authorization request has neither.
C38_ParametersDropped ==
  /\ call = "Oid4vciClient.initiateAuthorization"
  /\ oauth2Options # NoOptions
  /\ opts.additionalRequestPayload = << <<k_ui_locales, s_locale>> >>
  /\ opts.credentialOffer.grants.authorization_code.issuer_state # undefined
  /\ \E i \in DOMAIN sent :
       /\ sent[i].kind = "pushed_authorization_request"
       /\ ParamValue(sent[i].params, k_issuer_state) = undefined
       /\ ParamValue(sent[i].params, k_ui_locales) = undefined


\* The call returned an authorization request url.
ReturnsAuthorizationRequestUrl ==
  /\ call \in InitiateAuthorizationCalls
  /\ pc = "done"
  /\ result.kind = "return"
  /\ "authorizationRequestUrl" \in DOMAIN result.value

\* The url begins with the authorization_endpoint of the metadata.
BeginsWithAuthorizationEndpoint(url, metadata) ==
  /\ Truthy(metadata.authorization_endpoint)
  /\ Len(url) > Len(metadata.authorization_endpoint)
  /\ SubSeq(url, 1, Len(metadata.authorization_endpoint) + 1)
       = metadata.authorization_endpoint \o <<"?">>

\* The challenge request was answered with redirect_to_web and a request_uri.
RedirectToWebWithRequestUri ==
  /\ challenge.kind = "throw"
  /\ isRecoverableError(challenge.error)
  /\ Truthy(challenge.error.errorResponse.request_uri)

\* C39: every authorizationRequestUrl initiateAuthorization returns begins
\* with the authorization_endpoint of the selected authorization server, and
\* for metadata without authorization_endpoint no url is returned, on every
\* path of the call.
C39_UrlBeginsWithEndpoint ==
  ReturnsAuthorizationRequestUrl
    => BeginsWithAuthorizationEndpoint(result.value.authorizationRequestUrl,
                                       oauth2Options.authorizationServerMetadata)

\* The same without the path of redirect_to_web with a request_uri.
C39_UrlBeginsWithEndpointOtherPaths ==
  (ReturnsAuthorizationRequestUrl /\ ~RedirectToWebWithRequestUri)
    => BeginsWithAuthorizationEndpoint(result.value.authorizationRequestUrl,
                                       oauth2Options.authorizationServerMetadata)

\* Metadata without authorization_endpoint, redirect_to_web with a
\* request_uri: the url returned begins with the text "undefined".
C39_UrlOfUndefined ==
  /\ ReturnsAuthorizationRequestUrl
  /\ RedirectToWebWithRequestUri
  /\ oauth2Options.authorizationServerMetadata.authorization_endpoint = undefined
  /\ SubSeq(result.value.authorizationRequestUrl, 1, 10)
       = <<"u","n","d","e","f","i","n","e","d","?">>

====
